---- MODULE Spec2Model ----
(***************************************************************************)
(* Axela: the API server's sequence runners, the script executor, the      *)
(* recurring-script scheduler and the command executor, as one asyncio     *)
(* event loop whose coroutines give up the loop thread only where the      *)
(* code really suspends; and the agent step decoder of the AI agent.       *)
(***************************************************************************)
EXTENDS Integers, Sequences, FiniteSets, TLC

(* ------------------------------ bounds --------------------------------- *)

\* longest command list of one /execute, /execute_sequence or AI request
MaxSteps == 3
\* most command lines of one script
MaxLines == 2
\* longest chain parse_sequence yields for one script line
MaxLineSteps == 2
\* most command entries in one oracle document of the agent step
MaxAgentCmds == 2

(* ------------------------ the command vocabulary ----------------------- *)

Cmd(k, a) == [kind |-> k, action |-> a]

\* (kind, action) pairs the parser, the oracle decoder and the block
\* constructor of /execute_sequence can produce
Cmds ==
  { Cmd("mouse", "click"), Cmd("screenshot", "capture"),
    Cmd("system", "shutdown"), Cmd("web", "search"),
    Cmd("unknown", "click") }

\* a block of /execute_sequence whose strings are no enum value
BogusBlock == Cmd("bogus", "bogus")

Blocks == Cmds \cup {BogusBlock}

\* the command script lines are chained from: a click, which works or fails
\* with the primitive under it
ScriptCmds == { Cmd("mouse", "click") }

SeqsUpTo(S, n) == UNION { [1..k -> S] : k \in 0..n }

NonEmptySeqsUpTo(S, n) == UNION { [1..k -> S] : k \in 1..n }

(* --------------------------- Config (the gate) ------------------------- *)

DefaultSecurity == [level |-> "moderate", blocked |-> {}]

\* the security sections PUT /config is given: every level, and a
\* blocked_commands list that names an action
Securities ==
  { DefaultSecurity,
    [level |-> "moderate", blocked |-> {"click"}],
    [level |-> "unrestricted", blocked |-> {}],
    [level |-> "strict", blocked |-> {}],
    [level |-> "safe_mode", blocked |-> {}] }

is_command_allowed(sec, command_type, command_action) ==
  IF sec.level = "safe_mode" /\ command_type \notin {"mouse", "keyboard", "screenshot"}
    THEN FALSE
  ELSE IF sec.level = "strict" /\ command_type \in {"system", "file"}
    THEN FALSE
  ELSE IF command_action \in sec.blocked
    THEN FALSE
  ELSE TRUE

(* ------------------------------ messages ------------------------------- *)

\* an f-string: its fixed text and the values formatted into it
Msg(fmt, args) == [fmt |-> fmt, with |-> args]

(* --------------------------- CommandExecutor --------------------------- *)

\* what the OS primitive under a handler does: works, reports failure
\* (returns false / a non-zero status / nothing), or raises
Prims == {"ok", "false", "raises"}

Result(s, m) == [success |-> s, message |-> m]

_execute_mouse_command(cmd, prim) ==
  IF cmd.action = "click"
    THEN IF prim = "ok" THEN Result(TRUE, Msg("Clicked on {target}", <<>>))
                        ELSE Result(FALSE, Msg("Click failed", <<>>))
    ELSE Result(FALSE, Msg("Unknown mouse action: {action}", <<cmd.action>>))

_execute_screenshot_command(cmd, prim) ==
  IF cmd.action = "capture"
    THEN Result(TRUE, Msg("Screenshot saved to: {path}", <<>>))
    ELSE Result(FALSE, Msg("Unknown screenshot action: {action}", <<cmd.action>>))

_execute_system_command(cmd, prim) ==
  IF cmd.action = "shutdown"
    THEN IF prim = "raises"
           THEN Result(FALSE, Msg("System command error: {e}", <<>>))
           ELSE Result(TRUE, Msg("System shutdown initiated", <<>>))
    ELSE Result(FALSE, Msg("Unknown system action: {action}", <<cmd.action>>))

_execute_web_command(cmd, prim) ==
  IF cmd.action = "search"
    THEN IF prim = "raises"
           THEN Result(FALSE, Msg("Search failed", <<>>))
           ELSE Result(TRUE, Msg("Searched for: {query}", <<>>))
    ELSE Result(FALSE, Msg("Unknown web action: {action}", <<cmd.action>>))

execute(cmd, prim) ==
  IF cmd.kind = "mouse" THEN _execute_mouse_command(cmd, prim)
  ELSE IF cmd.kind = "screenshot" THEN _execute_screenshot_command(cmd, prim)
  ELSE IF cmd.kind = "system" THEN _execute_system_command(cmd, prim)
  ELSE IF cmd.kind = "web" THEN _execute_web_command(cmd, prim)
  ELSE Result(FALSE, Msg("Unknown command type: {command_type}", <<cmd.kind>>))

\* the handlers that reach an OS primitive at all
CallsPrimitive(cmd) ==
  \/ cmd.kind = "mouse" /\ cmd.action = "click"
  \/ cmd.kind = "screenshot" /\ cmd.action = "capture"
  \/ cmd.kind = "system" /\ cmd.action = "shutdown"
  \/ cmd.kind = "web" /\ cmd.action = "search"


(* ------------------------------- scripts ------------------------------- *)

\* one ScriptCommand: its is_enabled flag and what parse_sequence makes of
\* its text (never an empty list)
Lines == [enabled : BOOLEAN, cmds : NonEmptySeqsUpTo(ScriptCmds, MaxLineSteps)]

Scripts == SeqsUpTo(Lines, MaxLines)

\* most scripts one scheduler check finds due
MaxDue == 2

(* ------------------------------ the state ------------------------------ *)

Handlers == {"h1", "h2"}

Sched == "sched"

Tasks == Handlers \cup {Sched}

VARIABLES
  security,       \* Config.security: level and blocked_commands
  loop,           \* the coroutine that holds the event loop thread, or "idle"
  pc,             \* where each coroutine stands
  route,          \* the endpoint (and mode) a handler is serving
  commands,       \* the command list being run
  idx,            \* 1-based position in commands
  messages,       \* the messages list of the runner
  total_success,  \* the total_success flag of the runner
  gates,          \* the is_command_allowed calls of the run, in order
  calls,          \* the CommandExecutor.execute calls of the run, in order
  waiting,        \* the wait a coroutine is in: kind and length (ms)
  response,       \* what the run returned
  script,         \* the script being run
  line,           \* 1-based position in script.commands
  tally,          \* results, executed_count, failed_count, total_success
  is_running,     \* ScriptScheduler.is_running
  due,            \* due scripts the current scheduler check has still to run
  client,         \* AIAgent.client is set
  oracle,         \* the oracle's answer to the agent step request
  step_response,  \* the AgentStepResponse returned
  agent_pc        \* where process_agent_step stands

\* the agent prompt builder
VARIABLES
  user_goal,      \* the goal handed to _build_agent_prompt
  step_history,   \* the step history handed to it
  prompt          \* the prompt it returned

promptVars == <<user_goal, step_history, prompt>>

\* the pattern parser
VARIABLES
  input_text,     \* the text handed to parse or parse_sequence, word by word
  parse_result    \* which of the two was called and what it returned

parserVars == <<input_text, parse_result>>

\* the element finder and the mouse controller that uses it
VARIABLES
  screen,         \* the OCR entries of the screenshot, in reading order
  ocr,            \* which OCR engine the finder has
  _tried_targets, \* MouseController._tried_targets
  description,    \* the text target being resolved
  resolution,     \* what the latest resolution was handed and gave back
  failed_targets, \* the targets whose click returned False so far
  n_clicks        \* clicks made so far

finderVars == <<screen, ocr, _tried_targets, description, resolution,
                failed_targets, n_clicks>>

\* the similarity score
VARIABLES
  str1,              \* first argument of _calculate_similarity
  str2,              \* second argument
  similarity_result  \* the score it returned

similarityVars == <<str1, str2, similarity_result>>

\* the text matcher
VARIABLES
  entry_text,     \* the OCR text handed to _text_matches
  wanted_text,    \* the target text handed to it
  match_result    \* what it returned in fuzzy and in exact mode

matchVars == <<entry_text, wanted_text, match_result>>

\* one command handed to CommandExecutor.execute with its parameters
VARIABLES
  exec_call,
  exec_result

execVars == <<exec_call, exec_result>>

\* the command-line application working on one request
VARIABLES
  cli_pc,
  cli_request,
  cli_commands,
  cli_idx,
  cli_events,
  cli_ai_success,
  cli_return

cliVars == <<cli_pc, cli_request, cli_commands, cli_idx, cli_events, cli_ai_success, cli_return>>

\* the ScriptScheduler, its loop tasks and one recurring script
VARIABLES
  loop_is_running,
  loop_task,
  loop_tasks,
  stop_waits,
  stop_returned,
  recurrence,
  clock,
  script_runs

loopVars == <<loop_is_running, loop_task, loop_tasks, stop_waits, stop_returned, recurrence, clock, script_runs>>

\* what the functions checked on their own work on
libVars == <<promptVars, parserVars, finderVars, similarityVars, matchVars, execVars, cliVars, loopVars>>

runVars == <<commands, idx, messages, total_success, gates, calls, waiting,
             response, script, line, tally>>

serverVars == <<security, loop, pc, route, runVars, is_running, due>>

agentVars == <<client, oracle, step_response, agent_pc>>

vars == <<serverVars, agentVars, libVars>>

NoWait == [kind |-> "none", ms |-> 0]

NoResponse == [kind |-> "none"]

NoTally == [results |-> <<>>, executed |-> 0, failed |-> 0, ok |-> TRUE]

NoOracle == [kind |-> "none"]

\* the agent step decoder at rest
AgentIdle ==
  /\ client = FALSE
  /\ oracle = NoOracle
  /\ step_response = NoResponse
  /\ agent_pc = "off"

\* the server after AxelaAPIServer.__init__ and ScriptScheduler.__init__
ServerInit ==
  /\ security = DefaultSecurity
  /\ loop = "idle"
  /\ pc = [t \in Tasks |-> IF t = Sched THEN "off" ELSE "idle"]
  /\ route = [t \in Tasks |-> IF t = Sched THEN "scheduler" ELSE "none"]
  /\ commands = [t \in Tasks |-> <<>>]
  /\ idx = [t \in Tasks |-> 0]
  /\ messages = [t \in Tasks |-> <<>>]
  /\ total_success = [t \in Tasks |-> TRUE]
  /\ gates = [t \in Tasks |-> <<>>]
  /\ calls = [t \in Tasks |-> <<>>]
  /\ waiting = [t \in Tasks |-> NoWait]
  /\ response = [t \in Tasks |-> NoResponse]
  /\ script = [t \in Tasks |-> <<>>]
  /\ line = [t \in Tasks |-> 0]
  /\ tally = [t \in Tasks |-> NoTally]
  /\ is_running = FALSE
  /\ due = 0

NoPrompt == [kind |-> "none"]

\* the prompt builder at rest
PromptIdle ==
  /\ user_goal = ""
  /\ step_history = <<>>
  /\ prompt = NoPrompt

NoParse == [by |-> "none"]

\* the parser at rest
ParserIdle ==
  /\ input_text = <<>>
  /\ parse_result = NoParse

NoResolution == [done |-> FALSE]

\* no controller, no screen
FinderIdle ==
  /\ screen = <<>>
  /\ ocr = "none"
  /\ _tried_targets = <<>>
  /\ description = <<>>
  /\ resolution = NoResolution
  /\ failed_targets = {}
  /\ n_clicks = 0

NoSimilarity == [done |-> FALSE]

SimilarityIdle ==
  /\ str1 = <<>>
  /\ str2 = <<>>
  /\ similarity_result = NoSimilarity

NoMatch == [done |-> FALSE]

MatchIdle ==
  /\ entry_text = <<>>
  /\ wanted_text = <<>>
  /\ match_result = NoMatch

NoCall == [command |-> "none"]

NoOutcome == [done |-> FALSE]

ExecIdle ==
  /\ exec_call = NoCall
  /\ exec_result = NoOutcome

NoRequest == [text |-> ""]

CliIdle ==
  /\ cli_pc = "off"
  /\ cli_request = NoRequest
  /\ cli_commands = <<>>
  /\ cli_idx = 0
  /\ cli_events = <<>>
  /\ cli_ai_success = "none"
  /\ cli_return = "none"

NoRecurrence == [enabled |-> FALSE, next_execution |-> -1]

LoopIdle ==
  /\ loop_is_running = FALSE
  /\ loop_task = 0
  /\ loop_tasks = <<>>
  /\ stop_waits = {}
  /\ stop_returned = FALSE
  /\ recurrence = NoRecurrence
  /\ clock = 0
  /\ script_runs = <<>>

\* every part of the program at rest but the one named
IdleBut(part) ==
  /\ part = "server" \/ ServerInit
  /\ part = "agent" \/ AgentIdle
  /\ part = "prompt" \/ PromptIdle
  /\ part = "parser" \/ ParserIdle
  /\ part = "finder" \/ FinderIdle
  /\ part = "similarity" \/ SimilarityIdle
  /\ part = "match" \/ MatchIdle
  /\ part = "exec" \/ ExecIdle
  /\ part = "cli" \/ CliIdle
  /\ part = "loop" \/ LoopIdle

LibIdle == PromptIdle /\ ParserIdle /\ FinderIdle /\ SimilarityIdle /\ MatchIdle /\ ExecIdle /\ CliIdle /\ LoopIdle

Init == ServerInit /\ AgentIdle /\ LibIdle

(* ---------------------------- the event loop --------------------------- *)

\* the settle delay awaited instead of slept through
HoldsLoopDuringOracleOnly(kind) == kind = "oracle"

\* a wait that keeps the loop thread: time.sleep and the synchronous
\* OpenAI client call block it, asyncio.sleep gives it up
HoldsLoopDuring(kind) == kind \in {"settle", "oracle"}

\* requests are named after the handler slot that serves them: a new request
\* takes the lowest free slot
Slot == [h \in Handlers |-> IF h = "h1" THEN 1 ELSE 2]

Accepts(h) ==
  /\ pc[h] = "idle"
  /\ loop = "idle"
  /\ \A g \in Handlers : Slot[g] < Slot[h] => pc[g] # "idle"

\* a coroutine runs when it has the loop thread or the thread is free
Runnable(t) == loop = t \/ loop = "idle"

LoopWhile(t, kind) == IF HoldsLoopDuring(kind) THEN t ELSE "idle"

(* ------------------------- the sequence runners ------------------------ *)

\* a rejected step that does not end the loop
AfterBlockContinue(i, n) == i + 1

\* the step the runner turns to after a step the gate rejected: break
AfterBlock(i, n) == n + 1

\* a failed step that does not end the loop
AfterFailureContinue(i, n) == i + 1

\* the step the runner turns to after a failed step: break
AfterFailure(i, n) == n + 1

\* message recorded for a step the gate rejected
BlockedMessage(r, n, i, c) ==
  IF r = "execute_ai"
    THEN Msg("Command not allowed: {command_type}", <<c.kind>>)
  ELSE IF r = "execute_manual" /\ n = 1
    THEN Msg("Command not allowed by security policy: {command}", <<>>)
  ELSE Msg("Step {idx} blocked: {command_type}/{action}", <<ToString(i), c.kind, c.action>>)

InvalidMessage(i, c) ==
  Msg("Step {idx} invalid command: {command_type}/{action}", <<ToString(i), c.kind, c.action>>)

\* context-aware delay between chained steps, in milliseconds
SettleDelay(c) ==
  IF c.kind = "program" /\ c.action = "start" THEN 1500
  ELSE IF c.kind = "web" /\ c.action \in {"search", "navigate"} THEN 1000
  ELSE IF c.kind = "screenshot" THEN 300
  ELSE IF c.kind = "mouse" /\ c.action \in {"click", "double_click", "right_click"} THEN 400
  ELSE 200

\* only the chained manual-mode runner of /execute sleeps between steps
SettlesAfter(r, i, n) == r = "execute_manual" /\ i < n

ApiRoutes == {"execute_manual", "execute_ai", "execute_sequence"}

\* POST /execute in manual mode: parse_sequence, then the runner
ReceiveExecuteManual(h) ==
  /\ Accepts(h)
  /\ \E cs \in NonEmptySeqsUpTo(Cmds, MaxSteps) :
       /\ commands' = [commands EXCEPT ![h] = cs]
       /\ idx' = [idx EXCEPT ![h] = 1]
  /\ route' = [route EXCEPT ![h] = "execute_manual"]
  /\ pc' = [pc EXCEPT ![h] = "gate"]
  /\ loop' = h
  /\ UNCHANGED <<security, messages, total_success, gates, calls, waiting,
                 response, script, line, tally, is_running, due, agentVars, libVars>>

\* POST /execute in AI mode: the request goes to the oracle
ReceiveExecuteAI(h) ==
  /\ Accepts(h)
  /\ route' = [route EXCEPT ![h] = "execute_ai"]
  /\ pc' = [pc EXCEPT ![h] = "oracle"]
  /\ waiting' = [waiting EXCEPT ![h] = [kind |-> "oracle", ms |-> 0]]
  /\ loop' = LoopWhile(h, "oracle")
  /\ UNCHANGED <<security, commands, idx, messages, total_success, gates, calls,
                 response, script, line, tally, is_running, due, agentVars, libVars>>

\* process_request returns: a failure, or the decoded command list
OracleReply(h) ==
  /\ pc[h] = "oracle" /\ Runnable(h)
  /\ \E ok \in BOOLEAN, cs \in SeqsUpTo(Cmds, MaxSteps) :
       /\ ~ok => cs = <<>>
       /\ commands' = [commands EXCEPT ![h] = cs]
       /\ idx' = [idx EXCEPT ![h] = 1]
       /\ IF ok
            THEN /\ pc' = [pc EXCEPT ![h] = "gate"]
                 /\ UNCHANGED <<response, total_success>>
            ELSE /\ pc' = [pc EXCEPT ![h] = "responded"]
                 /\ total_success' = [total_success EXCEPT ![h] = FALSE]
                 /\ response' = [response EXCEPT ![h] =
                      [kind |-> "ai", success |-> FALSE, messages |-> <<>>, steps |-> 0]]
  /\ waiting' = [waiting EXCEPT ![h] = NoWait]
  /\ loop' = h
  /\ UNCHANGED <<security, route, messages, gates, calls, script, line, tally,
                 is_running, due, agentVars, libVars>>

\* POST /execute_sequence: an empty list is refused at once
ReceiveExecuteSequence(h) ==
  /\ Accepts(h)
  /\ \E cs \in SeqsUpTo(Blocks, MaxSteps) :
       /\ commands' = [commands EXCEPT ![h] = cs]
       /\ idx' = [idx EXCEPT ![h] = 1]
       /\ IF cs = <<>>
            THEN /\ pc' = [pc EXCEPT ![h] = "responded"]
                 /\ response' = [response EXCEPT ![h] =
                      [kind |-> "refused", success |-> FALSE, messages |-> <<>>, steps |-> 0]]
            ELSE /\ pc' = [pc EXCEPT ![h] = "gate"]
                 /\ UNCHANGED response
  /\ route' = [route EXCEPT ![h] = "execute_sequence"]
  /\ loop' = h
  /\ UNCHANGED <<security, messages, total_success, gates, calls, waiting,
                 script, line, tally, is_running, due, agentVars, libVars>>

\* head of one loop iteration: build the command (execute_sequence), then
\* ask the gate
Gate(h) ==
  /\ pc[h] = "gate" /\ Runnable(h)
  /\ route[h] \in ApiRoutes
  /\ idx[h] <= Len(commands[h])
  /\ LET i == idx[h]
         n == Len(commands[h])
         c == commands[h][i]
     IN IF c = BogusBlock
          THEN /\ total_success' = [total_success EXCEPT ![h] = FALSE]
               /\ messages' = [messages EXCEPT ![h] = Append(@, InvalidMessage(i, c))]
               /\ idx' = [idx EXCEPT ![h] = AfterBlock(i, n)]
               /\ UNCHANGED <<gates, pc>>
          ELSE LET allowed == is_command_allowed(security, c.kind, c.action)
               IN /\ gates' = [gates EXCEPT ![h] =
                       Append(@, [line |-> 0, idx |-> i, cmd |-> c, allowed |-> allowed])]
                  /\ IF allowed
                       THEN /\ pc' = [pc EXCEPT ![h] = "exec"]
                            /\ UNCHANGED <<total_success, messages, idx>>
                       ELSE /\ total_success' = [total_success EXCEPT ![h] = FALSE]
                            /\ messages' = [messages EXCEPT ![h] =
                                 Append(@, BlockedMessage(route[h], n, i, c))]
                            /\ idx' = [idx EXCEPT ![h] = AfterBlock(i, n)]
                            /\ UNCHANGED pc
  /\ loop' = h
  /\ UNCHANGED <<security, route, commands, calls, waiting, response, script,
                 line, tally, is_running, due, agentVars, libVars>>

\* self.executor.execute(parsed_command) and what the runner does with the
\* result
Dispatch(h) ==
  /\ pc[h] = "exec" /\ Runnable(h)
  /\ LET i == idx[h]
         n == Len(commands[h])
         c == commands[h][i]
     IN \E prim \in (IF CallsPrimitive(c) THEN Prims ELSE {"none"}) :
          LET r == execute(c, prim)
              next == IF r.success THEN i + 1 ELSE AfterFailure(i, n)
              settle == next <= n /\ SettlesAfter(route[h], i, n)
          IN /\ calls' = [calls EXCEPT ![h] =
                  Append(@, [line |-> 0, idx |-> i, cmd |-> c, prim |-> prim, result |-> r])]
             /\ messages' = [messages EXCEPT ![h] = Append(@, r.message)]
             /\ total_success' = [total_success EXCEPT ![h] = @ /\ r.success]
             /\ idx' = [idx EXCEPT ![h] = next]
             /\ pc' = [pc EXCEPT ![h] = IF settle THEN "settle" ELSE "gate"]
             /\ waiting' = [waiting EXCEPT ![h] =
                  IF settle THEN [kind |-> "settle", ms |-> SettleDelay(c)] ELSE NoWait]
             /\ loop' = IF settle THEN LoopWhile(h, "settle") ELSE h
  /\ UNCHANGED <<security, route, commands, gates, response, script, line, tally,
                 is_running, due, agentVars, libVars>>

\* the settle delay is over
SettleEnd(h) ==
  /\ pc[h] = "settle" /\ Runnable(h)
  /\ pc' = [pc EXCEPT ![h] = "gate"]
  /\ waiting' = [waiting EXCEPT ![h] = NoWait]
  /\ loop' = h
  /\ UNCHANGED <<security, route, commands, idx, messages, total_success, gates,
                 calls, response, script, line, tally, is_running, due, agentVars, libVars>>

\* the loop is over: the CommandResponse (or the (success, message) pair)
Respond(h) ==
  /\ pc[h] = "gate" /\ Runnable(h)
  /\ route[h] \in ApiRoutes
  /\ idx[h] > Len(commands[h])
  /\ response' = [response EXCEPT ![h] =
       [kind |-> "run", success |-> total_success[h], messages |-> messages[h],
        steps |-> Len(commands[h])]]
  /\ pc' = [pc EXCEPT ![h] = "responded"]
  /\ loop' = h
  /\ UNCHANGED <<security, route, commands, idx, messages, total_success, gates,
                 calls, waiting, script, line, tally, is_running, due, agentVars, libVars>>

\* the handler returns and the loop thread is free again
Close(h) ==
  /\ pc[h] = "responded" /\ Runnable(h)
  /\ pc' = [pc EXCEPT ![h] = "idle"]
  /\ route' = [route EXCEPT ![h] = "none"]
  /\ commands' = [commands EXCEPT ![h] = <<>>]
  /\ idx' = [idx EXCEPT ![h] = 0]
  /\ messages' = [messages EXCEPT ![h] = <<>>]
  /\ total_success' = [total_success EXCEPT ![h] = TRUE]
  /\ gates' = [gates EXCEPT ![h] = <<>>]
  /\ calls' = [calls EXCEPT ![h] = <<>>]
  /\ waiting' = [waiting EXCEPT ![h] = NoWait]
  /\ response' = [response EXCEPT ![h] = NoResponse]
  /\ script' = [script EXCEPT ![h] = <<>>]
  /\ line' = [line EXCEPT ![h] = 0]
  /\ tally' = [tally EXCEPT ![h] = NoTally]
  /\ loop' = "idle"
  /\ UNCHANGED <<security, is_running, due, agentVars, libVars>>

\* PUT /config changes the security section
UpdateConfig ==
  /\ loop = "idle"
  /\ \E sec \in Securities \ {security} : security' = sec
  /\ UNCHANGED <<loop, pc, route, runVars, is_running, due, agentVars, libVars>>


(* ---------------------- ScriptExecutor and scheduler ------------------- *)

\* POST /scripts/{id}/execute
ReceiveScriptExecute(h) ==
  /\ Accepts(h)
  /\ \E s \in Scripts : script' = [script EXCEPT ![h] = s]
  /\ line' = [line EXCEPT ![h] = 1]
  /\ route' = [route EXCEPT ![h] = "script"]
  /\ pc' = [pc EXCEPT ![h] = "script_line"]
  /\ loop' = h
  /\ UNCHANGED <<security, commands, idx, messages, total_success, gates, calls,
                 waiting, response, tally, is_running, due, agentVars, libVars>>

\* execute_script_object, head of the loop over script.commands: a disabled
\* command is skipped, an enabled one is parsed into its chain
ScriptLine(t) ==
  /\ pc[t] = "script_line" /\ Runnable(t)
  /\ line[t] <= Len(script[t])
  /\ LET ln == script[t][line[t]]
     IN IF ln.enabled
          THEN /\ commands' = [commands EXCEPT ![t] = ln.cmds]
               /\ idx' = [idx EXCEPT ![t] = 1]
               /\ messages' = [messages EXCEPT ![t] = <<>>]
               /\ total_success' = [total_success EXCEPT ![t] = TRUE]
               /\ pc' = [pc EXCEPT ![t] = "script_exec"]
               /\ UNCHANGED line
          ELSE /\ line' = [line EXCEPT ![t] = @ + 1]
               /\ UNCHANGED <<commands, idx, messages, total_success, pc>>
  /\ loop' = t
  /\ UNCHANGED <<security, route, gates, calls, waiting, response, script, tally,
                 is_running, due, agentVars, libVars>>

TalliedFailuresUncounted(tl, success) ==
  [results |-> Append(tl.results, success),
   executed |-> tl.executed + 1,
   failed |-> tl.failed,
   ok |-> tl.ok /\ success]

\* the record execute_script_object appends for one command line
Tallied(tl, success) ==
  [results |-> Append(tl.results, success),
   executed |-> tl.executed + 1,
   failed |-> IF success THEN tl.failed ELSE tl.failed + 1,
   ok |-> tl.ok /\ success]

\* _execute_hardcoded_command: one executor call of the chain; the chain
\* ends at its first failure or after its last command
ScriptDispatch(t) ==
  /\ pc[t] = "script_exec" /\ Runnable(t)
  /\ LET i == idx[t]
         n == Len(commands[t])
         c == commands[t][i]
     IN \E prim \in (IF CallsPrimitive(c) THEN Prims ELSE {"none"}) :
          LET r == execute(c, prim)
              ok == total_success[t] /\ r.success
              over == ~r.success \/ i = n
          IN /\ calls' = [calls EXCEPT ![t] =
                  Append(@, [line |-> line[t], idx |-> i, cmd |-> c, prim |-> prim,
                             result |-> r])]
             /\ messages' = [messages EXCEPT ![t] = Append(@, r.message)]
             /\ total_success' = [total_success EXCEPT ![t] = ok]
             /\ IF over
                  THEN /\ tally' = [tally EXCEPT ![t] = Tallied(@, ok)]
                       /\ line' = [line EXCEPT ![t] = @ + 1]
                       /\ pc' = [pc EXCEPT ![t] = "script_line"]
                       /\ UNCHANGED idx
                  ELSE /\ idx' = [idx EXCEPT ![t] = i + 1]
                       /\ UNCHANGED <<tally, line, pc>>
  /\ loop' = t
  /\ UNCHANGED <<security, route, commands, gates, waiting, response, script,
                 is_running, due, agentVars, libVars>>

ScriptExecutionResult(t) ==
  [kind |-> "script", success |-> tally[t].ok,
   total_commands |-> Len(script[t]),
   executed_commands |-> tally[t].executed,
   failed_commands |-> tally[t].failed,
   results |-> tally[t].results]

\* execute_script_object returns to the /scripts/{id}/execute handler
ScriptRespond(h) ==
  /\ h \in Handlers
  /\ pc[h] = "script_line" /\ Runnable(h)
  /\ line[h] > Len(script[h])
  /\ response' = [response EXCEPT ![h] = ScriptExecutionResult(h)]
  /\ pc' = [pc EXCEPT ![h] = "responded"]
  /\ loop' = h
  /\ UNCHANGED <<security, route, commands, idx, messages, total_success, gates,
                 calls, waiting, script, line, tally, is_running, due, agentVars, libVars>>

\* ScriptScheduler.start, called from a handler: no-op while running
SchedStart ==
  /\ loop = "idle"
  /\ ~is_running
  /\ is_running' = TRUE
  /\ pc' = [pc EXCEPT ![Sched] = "ready"]
  /\ UNCHANGED <<security, loop, route, runVars, due, agentVars, libVars>>

\* ScriptScheduler.stop, called from a handler: the task is cancelled where
\* it is suspended
SchedStop ==
  /\ loop = "idle"
  /\ is_running
  /\ is_running' = FALSE
  /\ pc' = [pc EXCEPT ![Sched] = "off"]
  /\ waiting' = [waiting EXCEPT ![Sched] = NoWait]
  /\ UNCHANGED <<security, loop, route, commands, idx, messages, total_success,
                 gates, calls, response, script, line, tally, due, agentVars, libVars>>

\* _scheduler_loop: the task starts, or asyncio.sleep(check_interval) is
\* over; get_scripts_due_for_execution
SchedCheck ==
  /\ pc[Sched] \in {"ready", "sleep"} /\ Runnable(Sched)
  /\ is_running
  /\ \E d \in 0..MaxDue : due' = d
  /\ pc' = [pc EXCEPT ![Sched] = "next"]
  /\ waiting' = [waiting EXCEPT ![Sched] = NoWait]
  /\ loop' = Sched
  /\ UNCHANGED <<security, route, commands, idx, messages, total_success, gates,
                 calls, response, script, line, tally, is_running, agentVars, libVars>>

\* the next due script is run, or the check is over and the loop sleeps
SchedNext ==
  /\ pc[Sched] = "next" /\ Runnable(Sched)
  /\ IF due > 0
       THEN /\ \E s \in Scripts : script' = [script EXCEPT ![Sched] = s]
            /\ line' = [line EXCEPT ![Sched] = 1]
            /\ pc' = [pc EXCEPT ![Sched] = "script_line"]
            /\ loop' = Sched
            /\ UNCHANGED waiting
       ELSE /\ pc' = [pc EXCEPT ![Sched] = "sleep"]
            /\ waiting' = [waiting EXCEPT ![Sched] = [kind |-> "interval", ms |-> 5000]]
            /\ loop' = LoopWhile(Sched, "interval")
            /\ UNCHANGED <<script, line>>
  /\ UNCHANGED <<security, route, commands, idx, messages, total_success, gates,
                 calls, response, tally, is_running, due, agentVars, libVars>>

\* execute_script_object returns to _check_and_execute_due_scripts
SchedScriptDone ==
  /\ pc[Sched] = "script_line" /\ Runnable(Sched)
  /\ line[Sched] > Len(script[Sched])
  /\ response' = [response EXCEPT ![Sched] = ScriptExecutionResult(Sched)]
  /\ pc' = [pc EXCEPT ![Sched] = "script_done"]
  /\ loop' = Sched
  /\ UNCHANGED <<security, route, commands, idx, messages, total_success, gates,
                 calls, waiting, script, line, tally, is_running, due, agentVars, libVars>>

\* the result is logged and the for loop over due_scripts moves on
SchedLogged ==
  /\ pc[Sched] = "script_done" /\ Runnable(Sched)
  /\ due' = due - 1
  /\ pc' = [pc EXCEPT ![Sched] = "next"]
  /\ commands' = [commands EXCEPT ![Sched] = <<>>]
  /\ idx' = [idx EXCEPT ![Sched] = 0]
  /\ messages' = [messages EXCEPT ![Sched] = <<>>]
  /\ total_success' = [total_success EXCEPT ![Sched] = TRUE]
  /\ calls' = [calls EXCEPT ![Sched] = <<>>]
  /\ response' = [response EXCEPT ![Sched] = NoResponse]
  /\ script' = [script EXCEPT ![Sched] = <<>>]
  /\ line' = [line EXCEPT ![Sched] = 0]
  /\ tally' = [tally EXCEPT ![Sched] = NoTally]
  /\ loop' = Sched
  /\ UNCHANGED <<security, route, gates, waiting, is_running, agentVars, libVars>>

(* ------------------------- AIAgent: the agent step --------------------- *)

\* Python's None: what dict.get gives for a missing key and json.loads for null
None == "None"

\* the value of a key the document does not have
Absent == "absent"

\* a "commands" entry: decodable, or lacking / carrying a wrong enum string
Entries == {"valid", "no_command_type", "unknown_command_type", "no_action",
            "unknown_action"}

\* "status" strings an oracle document carries ("done" is none of the three)
StatusValues == {"continue", "complete", "failed", "done"}

\* JSON objects the oracle returns; "commands" is a list, missing, or null
Documents ==
  { d \in [kind : {"object"},
           status : StatusValues \cup {Absent, None},
           success : {"true", "false", Absent},
           commands_key : {"list", Absent, None},
           commands : SeqsUpTo(Entries, MaxAgentCmds),
           reasoning : {Absent, "I see the dialog"},
           final_response : {Absent, None, "", "The file is saved"}] :
      d.commands_key # "list" => d.commands = <<>> }

\* what comes back from the request: an exception, text that is no JSON,
\* JSON that is no object, or an object
OracleReplies ==
  {[kind |-> "error"], [kind |-> "text"], [kind |-> "array"]} \cup Documents

\* dict.get(key, default)
Get(value, default) == IF value = Absent THEN default ELSE value

\* the ParsedCommand a decodable entry becomes
Decoded(entry) == Cmd("mouse", "click")

\* _parse_ai_response: iterating a null "commands" raises like a bad entry
_parse_ai_response(doc) ==
  IF doc.commands_key # None /\ \A j \in DOMAIN doc.commands : doc.commands[j] = "valid"
    THEN [success |-> Get(doc.success, "true") = "true",
          commands |-> [j \in DOMAIN doc.commands |-> Decoded(doc.commands[j])],
          explanation |-> "",
          warnings |-> <<>>]
    ELSE [success |-> FALSE,
          commands |-> <<>>,
          explanation |-> "Failed to parse AI-generated commands",
          warnings |-> <<"Command parsing error">>]

AgentStepResponse(success, cmds, reasoning, status, final_response, warnings) ==
  [kind |-> "step", success |-> success, commands |-> cmds, reasoning |-> reasoning,
   status |-> status, final_response |-> final_response, warnings |-> warnings]

\* x or y
Or(x, y) == IF x \in {None, ""} THEN y ELSE x

\* process_agent_step once the request has come back
process_agent_step(reply) ==
  IF reply.kind = "text"
    THEN AgentStepResponse(FALSE, <<>>, "Failed to parse agent response. Please try again.",
                           "failed", None, <<"Agent mode parsing error">>)
  ELSE IF reply.kind \in {"error", "array"}
    THEN AgentStepResponse(FALSE, <<>>, "Agent mode request failed: {e}",
                           "failed", None, <<"Agent mode error">>)
  ELSE LET parsed == _parse_ai_response(reply)
       IN AgentStepResponse(parsed.success, parsed.commands,
                            Or(Get(reply.reasoning, None), parsed.explanation),
                            Get(reply.status, "continue"),
                            Get(reply.final_response, None),
                            parsed.warnings)

\* the agent with or without an OpenAI client, before a step is asked for
AgentInit ==
  /\ ServerInit
  /\ LibIdle
  /\ client \in BOOLEAN
  /\ oracle = NoOracle
  /\ step_response = NoResponse
  /\ agent_pc = "ready"

\* process_agent_step is called: without a client it returns at once,
\* otherwise the prompt goes to the oracle
AgentCall ==
  /\ agent_pc = "ready"
  /\ IF client
       THEN /\ agent_pc' = "asked"
            /\ UNCHANGED step_response
       ELSE /\ agent_pc' = "returned"
            /\ step_response' =
                 AgentStepResponse(FALSE, <<>>,
                   "AI agent not properly initialized. Check OpenAI API key.",
                   "failed", None, <<"OpenAI API not available">>)
  /\ UNCHANGED <<client, oracle, serverVars, libVars>>

\* chat.completions.create returns or raises
OracleAnswers ==
  /\ agent_pc = "asked"
  /\ \E reply \in OracleReplies : oracle' = reply
  /\ agent_pc' = "replied"
  /\ UNCHANGED <<client, step_response, serverVars, libVars>>

\* the reply is decoded into the AgentStepResponse
AgentDecode ==
  /\ agent_pc = "replied"
  /\ step_response' = process_agent_step(oracle)
  /\ agent_pc' = "returned"
  /\ UNCHANGED <<client, oracle, serverVars, libVars>>

\* the caller has the response; the next step can be asked for
AgentNextTurn ==
  /\ agent_pc = "returned"
  /\ oracle' = NoOracle
  /\ step_response' = NoResponse
  /\ agent_pc' = "ready"
  /\ UNCHANGED <<client, serverVars, libVars>>

AgentNext == AgentCall \/ OracleAnswers \/ AgentDecode \/ AgentNextTurn

SpecAgent == AgentInit /\ [][AgentNext]_vars

(* ---------------------- AIAgent: the agent prompt ---------------------- *)

\* most entries of one step history
MaxHistory == 4

\* texts of on-screen elements the agent has been clicking
Targets == {"Done", "Submit"}

Goals == {"save the file", "close the dialog"}

\* one step_history entry: its stuck_detected flag, its already_tried value
\* (or no such key), and whether json.dumps can serialise the entry
HistoryEntries ==
  [stuck_detected : BOOLEAN, already_tried : Targets \cup {Absent},
   serialisable : BOOLEAN]

StepHistories == SeqsUpTo(HistoryEntries, MaxHistory)

\* the positions of step_history[-3:]
LastThree(h) == { i \in DOMAIN h : i > Len(h) - 3 }

NoWarning == Msg("", <<>>)

\* the warning block, {already_tried} formatted into it twice
StuckWarning(t) ==
  Msg("STUCK DETECTED: You already tried clicking \"{already_tried}\" and it didn't work. [...] DO NOT click \"{already_tried}\" again!",
      <<t, t>>)

\* the first entry of the last three that has stuck_detected set names the
\* target of the warning; json.dumps raising leaves no warning at all
_build_agent_prompt(goal, h) ==
  LET dumped == \A i \in DOMAIN h : h[i].serialisable
      stuck == { i \in LastThree(h) : h[i].stuck_detected }
      first == CHOOSE i \in stuck : \A j \in stuck : i <= j
  IN [kind |-> "prompt",
      goal |-> goal,
      stuck_warning |->
        IF h # <<>> /\ dumped /\ stuck # {}
          THEN StuckWarning(Get(h[first].already_tried, ""))
          ELSE NoWarning,
      history_text |->
        IF h = <<>> THEN [how |-> "[]", of |-> <<>>]
        ELSE IF dumped THEN [how |-> "json.dumps", of |-> h]
        ELSE [how |-> "str", of |-> h]]

\* a goal and a step history, before the prompt is built
PromptInit ==
  /\ IdleBut("prompt")
  /\ user_goal \in Goals
  /\ step_history \in StepHistories
  /\ prompt = NoPrompt

BuildAgentPrompt ==
  /\ prompt = NoPrompt
  /\ prompt' = _build_agent_prompt(user_goal, step_history)
  /\ UNCHANGED <<user_goal, step_history, serverVars, agentVars, parserVars,
                 finderVars, similarityVars, matchVars, execVars, cliVars, loopVars>>

PromptNext == BuildAgentPrompt

SpecPrompt == PromptInit /\ [][PromptNext]_vars

(* ------------------------ NaturalLanguageParser ------------------------ *)

\* A text is the sequence of its words: maximal runs of characters without
\* white space, a comma or a quote; a comma and a quote are words of their
\* own.  Joining the words with single blanks gives the text after
\* re.sub(r"\s+", " ", text).strip().

\* most words of a text given to parse_sequence when splitting is examined
MaxTokens == 5
\* most words of a text given to parse and parse_sequence
MaxWords == 3

\* the words that matter to the splitting loop, and one that does not
SplitWords == {"x", "and", "then", ",", "'", "\""}

\* command words: none contains a keyword of the pattern table except as
\* the whole word
ParserWords ==
  {"click", "Click", "double", "x", "open", "sleep", "calculate", "7", "and", ","}

\* str.lower, word by word
Lower(w) == IF w = "Click" THEN "click" ELSE w

LowerText(t) == [i \in DOMAIN t |-> Lower(t[i])]

\* words made of the characters [0-9+\-*/().]
ExpressionWords == {"7", "8", "12", "3", "5", "+", "-", "*", "/", "(", ")"}

\* words made of digits (and one decimal point)
NumberWords == {"7", "8", "12", "3", "5"}

DirectionWords == {"up", "down", "left", "right"}

ParsedCommand(command_type, action, parameters, confidence, raw_text) ==
  [kind |-> command_type, action |-> action, parameters |-> parameters,
   confidence |-> confidence, raw_text |-> raw_text]

\* One alternative of a pattern: the words it needs in a row (pre), an
\* optional word (opt, {} when there is none), the words needed after it
\* (post), and what follows: nothing ("none"), the rest of the text, at
\* least one word of it ("rest"), or <words> to <words> ("to").
Form(pre, opt, post, tail) == [pre |-> pre, opt |-> opt, post |-> post, tail |-> tail]

Kw(words, tail) == Form(<<words>>, {}, <<>>, tail)

\* One table entry: its alternatives, its CommandType and ActionType, and
\* the length of its regular expression (read by _calculate_confidence)
Pattern(forms, command_type, action, length) ==
  [forms |-> forms, kind |-> command_type, action |-> action, length |-> length]

\* _initialize_patterns, in the order the dict is iterated
command_patterns ==
  << \* mouse
     Pattern({Form(<<{"click"}>>, {"on"}, <<>>, "rest")}, "mouse", "click", 22),
     Pattern({Form(<<{"double"}, {"click"}>>, {"on"}, <<>>, "rest"),
              Form(<<{"doubleclick"}>>, {"on"}, <<>>, "rest")}, "mouse", "double_click", 31),
     Pattern({Form(<<{"right"}, {"click"}>>, {"on"}, <<>>, "rest"),
              Form(<<{"rightclick"}>>, {"on"}, <<>>, "rest")}, "mouse", "right_click", 30),
     Pattern({Kw({"drag"}, "to")}, "mouse", "drag", 24),
     Pattern({Form(<<{"scroll"}, DirectionWords>>, {}, <<>>, "none")}, "mouse", "scroll", 29),
     Pattern({Form(<<{"move"}>>, {"mouse"}, <<{"to"}>>, "rest")}, "mouse", "move", 29),
     \* keyboard
     Pattern({Form(<<{"type"}, {"'", "\""}>>, {}, <<>>, "quoted")}, "keyboard", "type", 22),
     Pattern({Kw({"type"}, "rest")}, "keyboard", "type", 11),
     Pattern({Kw({"press"}, "rest")}, "keyboard", "key_press", 12),
     Pattern({Form(<<{"ctrl", "cmd"}, {"+"}>>, {}, <<>>, "rest")}, "keyboard", "key_combo", 24),
     Pattern({Form(<<{"alt"}, {"+"}>>, {}, <<>>, "rest")}, "keyboard", "key_combo", 15),
     Pattern({Form(<<{"shift"}, {"+"}>>, {}, <<>>, "rest")}, "keyboard", "key_combo", 17),
     \* screenshot
     Pattern({Kw({"screenshot"}, "none")}, "screenshot", "capture", 31),
     Pattern({Form(<<{"capture"}>>, {"the"}, <<{"screen"}>>, "none")}, "screenshot", "capture", 27),
     Pattern({Form(<<{"save"}, {"screenshot"}>>, {"as"}, <<>>, "rest")}, "screenshot", "save", 34),
     \* system
     Pattern({Kw({"shutdown"}, "none"),
              Form(<<{"shut"}, {"down"}>>, {}, <<>>, "none")}, "system", "shutdown", 20),
     Pattern({Kw({"restart", "reboot"}, "none")}, "system", "restart", 14),
     Pattern({Kw({"logout", "logoff"}, "none"),
              Form(<<{"log"}, {"out", "off"}>>, {}, <<>>, "none")}, "system", "logout", 17),
     Pattern({Kw({"sleep", "suspend"}, "none")}, "system", "sleep", 13),
     \* file
     Pattern({Form(<<{"open"}>>, {"file"}, <<>>, "rest")}, "file", "open", 23),
     Pattern({Form(<<{"create"}>>, {"file"}, <<>>, "rest")}, "file", "create", 25),
     Pattern({Form(<<{"delete"}>>, {"file"}, <<>>, "rest")}, "file", "delete", 25),
     Pattern({Kw({"copy"}, "to")}, "file", "copy", 24),
     Pattern({Kw({"move"}, "to")}, "file", "move_file", 24),
     Pattern({Kw({"rename"}, "to")}, "file", "rename", 26),
     \* program
     Pattern({Kw({"start", "launch", "run", "open"}, "rest")}, "program", "start", 32),
     Pattern({Kw({"close"}, "rest")}, "program", "close", 12),
     Pattern({Kw({"minimize"}, "rest")}, "program", "minimize", 15),
     Pattern({Kw({"maximize"}, "rest")}, "program", "maximize", 15),
     \* web
     Pattern({Form(<<{"search"}>>, {"for"}, <<>>, "rest")}, "web", "search", 24),
     Pattern({Form(<<{"go"}, {"to"}>>, {}, <<>>, "rest")}, "web", "navigate", 14),
     Pattern({Form(<<{"navigate"}, {"to"}>>, {}, <<>>, "rest")}, "web", "navigate", 20),
     \* utility
     Pattern({Form(<<{"wait"}>>, {"for"}, <<NumberWords>>, "none")}, "utility", "wait", 57),
     Pattern({Form(<<{"delay"}, NumberWords>>, {}, <<>>, "none")}, "utility", "delay", 47),
     Pattern({Form(<<{"pause"}>>, {"for"}, <<NumberWords>>, "none")}, "utility", "wait", 58),
     Pattern({Form(<<{"sleep"}, NumberWords>>, {}, <<>>, "none")}, "utility", "wait", 47) >>

Quotes == {"'", "\""}

Min(S) == CHOOSE x \in S : \A y \in S : x <= y

Max(S) == CHOOSE x \in S : \A y \in S : x >= y

\* the words of t from position i on are, one by one, in the sets of s
MatchesAt(s, t, i) ==
  /\ i + Len(s) - 1 <= Len(t)
  /\ \A k \in DOMAIN s : t[i + k - 1] \in s[k]

\* what has to follow the words of a form, j being the position after them
TailOk(tail, t, j) ==
  CASE tail = "none" -> TRUE
    [] tail = "rest" -> j <= Len(t)
    [] tail = "to" -> \E k \in (j + 1)..(Len(t) - 1) : t[k] = "to"
    [] tail = "quoted" -> \E k \in j..Len(t) : t[k] \in Quotes

\* the position after the words of form f matched at position i, the
\* optional word taken when the match succeeds with it; 0 for no match
FormEnd(f, t, i) ==
  IF ~MatchesAt(f.pre, t, i) THEN 0
  ELSE LET j == i + Len(f.pre)
           taken == /\ j <= Len(t)
                    /\ t[j] \in f.opt
                    /\ MatchesAt(f.post, t, j + 1)
                    /\ TailOk(f.tail, t, j + 1 + Len(f.post))
           skipped == /\ MatchesAt(f.post, t, j)
                      /\ TailOk(f.tail, t, j + Len(f.post))
       IN IF taken THEN j + 1 + Len(f.post)
          ELSE IF skipped THEN j + Len(f.post)
          ELSE 0

\* re.match in its place: the pattern at the start of the text only
OccursAtStart(p, t) == \E f \in p.forms : t # <<>> /\ FormEnd(f, t, 1) # 0

\* re.search(pattern, text): does the pattern occur anywhere in the text
Occurs(p, t) == \E f \in p.forms : \E i \in DOMAIN t : FormEnd(f, t, i) # 0

\* the match re.search returns: the leftmost one
Search(p, t) ==
  LET at == Min({ i \in DOMAIN t : \E f \in p.forms : FormEnd(f, t, i) # 0 })
      f == CHOOSE g \in p.forms : FormEnd(g, t, at) # 0
      j == FormEnd(f, t, at)
      k == IF f.tail = "to" THEN Min({ m \in (j + 1)..(Len(t) - 1) : t[m] = "to" })
           ELSE IF f.tail = "quoted" THEN Min({ m \in j..Len(t) : t[m] \in Quotes })
           ELSE Len(t) + 1
  IN [start |-> at, tail |-> f.tail, last |-> <<t[j - 1]>>,
      first |-> SubSeq(t, j, k - 1), second |-> SubSeq(t, k + 1, Len(t)),
      whole |-> SubSeq(t, at, IF f.tail = "none" THEN j - 1 ELSE Len(t))]

\* _extract_parameters: the dict as the set of its (key, value) pairs
_extract_parameters(m, action_type) ==
  LET group1 == IF m.tail = "none" THEN m.last ELSE m.first
  IN IF action_type \in {"click", "double_click", "right_click", "move"}
       THEN {<<"target", group1>>}
     ELSE IF action_type = "drag" THEN {<<"source", m.first>>, <<"destination", m.second>>}
     ELSE IF action_type = "scroll" THEN {<<"direction", group1>>}
     ELSE IF action_type = "type" THEN {<<"text", group1>>}
     ELSE IF action_type = "key_press" THEN {<<"key", group1>>}
     ELSE IF action_type = "key_combo" THEN {<<"combo", m.whole>>}
     ELSE IF action_type = "save" THEN {<<"filename", group1>>}
     ELSE IF action_type \in {"open", "create", "delete"} THEN {<<"path", group1>>}
     ELSE IF action_type \in {"copy", "move_file", "rename"}
       THEN {<<"source", m.first>>, <<"destination", m.second>>}
     ELSE IF action_type \in {"start", "close", "minimize", "maximize"}
       THEN {<<"program", group1>>}
     ELSE IF action_type \in {"search", "navigate"} THEN {<<"query", group1>>}
     ELSE IF action_type \in {"wait", "delay"} THEN {<<"duration", group1>>}
     ELSE {}

\* _calculate_confidence, in hundredths
_calculate_confidence(p) == 80 + (IF p.length < 20 THEN p.length ELSE 20)

\* a no-match return that guesses a click on the text
UnknownCommandGuessed(t) == ParsedCommand("mouse", "click", {<<"target", t>>}, 0, t)

\* the no-match return of parse
UnknownCommand(t) == ParsedCommand("unknown", "click", {<<"text", t>>}, 0, t)

\* a scan of the table that keeps the last match
LastMatch(hits) == Max(hits)

\* the scan of the table returns at its first match
FirstMatch(hits) == Min(hits)

parse(text) ==
  LET t == LowerText(text)
      hits == { k \in DOMAIN command_patterns : Occurs(command_patterns[k], t) }
      p == command_patterns[FirstMatch(hits)]
  IN IF hits = {} THEN UnknownCommand(t)
     ELSE ParsedCommand(p.kind, p.action, _extract_parameters(Search(p, t), p.action),
                        _calculate_confidence(p), t)

\* make_keyboard_sequence
make_keyboard_sequence(expr) ==
  IF expr = <<>> THEN <<>>
  ELSE << ParsedCommand("keyboard", "type", {<<"text", expr>>}, 95, <<"type">> \o expr),
          ParsedCommand("keyboard", "key_press", {<<"key", <<"enter">>>>}, 90,
                        <<"press", "enter">>) >>

\* the numbers of "add a and b ..." joined with " + "
RECURSIVE JoinPlus(_)
JoinPlus(nums) ==
  IF Len(nums) <= 1 THEN nums
  ELSE <<Head(nums), "+">> \o JoinPlus(Tail(nums))

_expand_compound(text) ==
  LET t == LowerText(text)
      n == Len(t)
      rest(k) == SubSeq(t, k, n)
      all_in(k, S) == \A i \in k..n : t[i] \in S
  IN IF n >= 2 /\ t[1] \in {"calculate", "compute"} /\ all_in(2, ExpressionWords)
       THEN make_keyboard_sequence(rest(2))
     ELSE IF n >= 3 /\ t[1] = "what" /\ t[2] = "is" /\ all_in(3, ExpressionWords)
       THEN make_keyboard_sequence(rest(3))
     ELSE IF /\ n >= 4 /\ n % 2 = 0 /\ t[1] = "add"
             /\ \A i \in 2..n : IF i % 2 = 0 THEN t[i] \in NumberWords
                                ELSE t[i] \in {"and", ",", "+", "plus"}
       THEN make_keyboard_sequence(JoinPlus([i \in 1..(n \div 2) |-> t[2 * i]]))
     ELSE IF /\ n = 4 /\ t[1] = "subtract" /\ t[2] \in NumberWords
             /\ t[3] = "from" /\ t[4] \in NumberWords
       THEN make_keyboard_sequence(<<t[4], "-", t[2]>>)
     ELSE IF /\ n = 4 /\ t[1] = "multiply" /\ t[2] \in NumberWords
             /\ t[3] = "by" /\ t[4] \in NumberWords
       THEN make_keyboard_sequence(<<t[2], "*", t[4]>>)
     ELSE IF /\ n = 4 /\ t[1] = "divide" /\ t[2] \in NumberWords
             /\ t[3] = "by" /\ t[4] \in NumberWords
       THEN make_keyboard_sequence(<<t[2], "/", t[4]>>)
     ELSE <<>>

\* The while loop of parse_sequence.  i is the word the loop has come to,
\* last the first word of the segment being collected, blank says that the
\* blank before word i has not been swallowed by the separator just matched.
RECURSIVE SplitFrom(_, _, _, _, _, _, _)
SplitFrom(t, i, last, blank, in_single, in_double, parts) ==
  LET n == Len(t)
      cut == IF i - 1 >= last THEN Append(parts, SubSeq(t, last, i - 1)) ELSE parts
      free == blank /\ ~in_single /\ ~in_double
  IN IF i > n THEN cut
     ELSE IF free /\ i + 1 < n /\ t[i] = "and" /\ t[i + 1] = "then"
       THEN SplitFrom(t, i + 2, i + 2, FALSE, in_single, in_double, cut)
     ELSE IF free /\ i < n /\ t[i] \in {"then", "and"}
       THEN SplitFrom(t, i + 1, i + 1, FALSE, in_single, in_double, cut)
     ELSE LET single == IF t[i] = "'" /\ ~in_double THEN ~in_single ELSE in_single
              double == IF t[i] = "\"" /\ ~in_single THEN ~in_double ELSE in_double
          IN IF ~single /\ ~double /\ t[i] = ","
               THEN SplitFrom(t, i + 1, i + 1, TRUE, single, double, cut)
               ELSE SplitFrom(t, i + 1, last, TRUE, single, double, parts)

\* the commands one segment of a chain becomes
SegmentCommands(segment) ==
  LET cmd == parse(segment)
      expanded == _expand_compound(segment)
  IN IF cmd.kind = "unknown" /\ expanded # <<>>
       THEN expanded
       ELSE <<[cmd EXCEPT !.raw_text = LowerText(segment)]>>

RECURSIVE ChainCommands(_)
ChainCommands(parts) ==
  IF parts = <<>> THEN <<>>
  ELSE SegmentCommands(Head(parts)) \o ChainCommands(Tail(parts))

\* parse_sequence: the segments found and the commands returned
parse_sequence(text) ==
  LET parts == SplitFrom(text, 1, 1, FALSE, FALSE, FALSE, <<>>)
  IN IF text = <<>> THEN [parts |-> <<>>, commands |-> <<parse(<<>>)>>]
     ELSE IF Len(parts) <= 1 THEN [parts |-> parts, commands |-> <<parse(text)>>]
     ELSE [parts |-> parts, commands |-> ChainCommands(parts)]

\* a text whose separators and quotes are examined
SplitInit ==
  /\ IdleBut("parser")
  /\ input_text \in SeqsUpTo(SplitWords, MaxTokens)
  /\ parse_result = NoParse

\* a text of command words
ParserInit ==
  /\ IdleBut("parser")
  /\ input_text \in SeqsUpTo(ParserWords, MaxWords)
  /\ parse_result = NoParse

CallParse ==
  /\ parse_result = NoParse
  /\ parse_result' = [by |-> "parse", parts |-> <<>>, commands |-> <<parse(input_text)>>]
  /\ UNCHANGED <<input_text, serverVars, agentVars, promptVars,
                 finderVars, similarityVars, matchVars, execVars, cliVars, loopVars>>

CallParseSequence ==
  /\ parse_result = NoParse
  /\ parse_result' = [by |-> "parse_sequence"] @@ parse_sequence(input_text)
  /\ UNCHANGED <<input_text, serverVars, agentVars, promptVars,
                 finderVars, similarityVars, matchVars, execVars, cliVars, loopVars>>

\* most words of a text made of the words below
MaxShadowWords == 4

\* the words of the table entries that come after an entry they contain
ShadowWords == {"double", "right", "click", "save", "screenshot", "sleep", "7", "x", "on"}

\* a text of such words
ShadowInit ==
  /\ IdleBut("parser")
  /\ input_text \in SeqsUpTo(ShadowWords, MaxShadowWords)
  /\ parse_result = NoParse

ParserNext == CallParse \/ CallParseSequence

SpecSplit == SplitInit /\ [][ParserNext]_vars

SpecParser == ParserInit /\ [][ParserNext]_vars

SpecShadow == ShadowInit /\ [][ParserNext]_vars

(* ------- finding a click target on the screen: SmartElementFinder ------- *)
(* A text is the sequence of its characters.  Confidences are in          *)
(* hundredths, coordinates are the place of the entry in the OCR output.  *)

\* most OCR entries on one screen
MaxEntries == 2

\* most clicks one MouseController is followed through
MaxClicks == 2

Done == <<"D", "o", "n", "e">>

Dome == <<"D", "o", "m", "e">>

Settings == <<"S", "e", "t", "t", "i", "n", "g", "s">>

SettingsMenu == Settings \o <<" ", "m", "e", "n", "u">>

Price == <<"$", "9", "9">>

PriceTimesTen == <<"$", "9", "9", "0">>

\* texts the OCR engine reads off the screen
ScreenTexts == {Done, Dome, Settings, SettingsMenu, Price, PriceTimesTen}

\* OCR confidences: one under the 0.3 floor, one over it
Confidences == {20, 90}

\* click targets given as text
Descriptions == {Done, Settings, Price}

\* what readtext / image_to_data give back for the screenshot
OcrEntries == [text : ScreenTexts, confidence : Confidences]

Screens == UNION {[1..n -> OcrEntries] : n \in 0..MaxEntries}

\* easyocr_reader is set, or only pytesseract is there, or neither
OcrEngines == {"easyocr", "tesseract", "none"}

\* _tried_targets as a caller may have set it
ExclusionLists == {<<>>} \cup {<<t>> : t \in Descriptions}

FoundElement(text, confidence, coordinates) ==
  [text |-> text, confidence |-> confidence, coordinates |-> coordinates,
   element_type |-> "text"]

Range(s) == {s[i] : i \in DOMAIN s}

\* the elements of s at the places in ok, in their order
RECURSIVE KeepAt(_, _, _)
KeepAt(s, ok, i) ==
  IF i > Len(s) THEN <<>>
  ELSE (IF i \in ok THEN <<s[i]>> ELSE <<>>) \o KeepAt(s, ok, i + 1)

\* str.lower on the letters that occur
LowerCase == [D |-> "d", S |-> "s"]

lower(s) == [i \in DOMAIN s |-> IF s[i] \in DOMAIN LowerCase THEN LowerCase[s[i]] ELSE s[i]]

Whitespace == {" "}

RECURSIVE lstrip(_)
lstrip(s) == IF s # <<>> /\ Head(s) \in Whitespace THEN lstrip(Tail(s)) ELSE s

RECURSIVE rstrip(_)
rstrip(s) ==
  IF s # <<>> /\ s[Len(s)] \in Whitespace
  THEN rstrip(SubSeq(s, 1, Len(s) - 1)) ELSE s

strip(s) == rstrip(lstrip(s))

\* str.split(): the words between runs of whitespace
split(s) ==
  LET starts == {i \in DOMAIN s : s[i] \notin Whitespace /\ (i = 1 \/ s[i - 1] \in Whitespace)}
      start(k) == CHOOSE i \in starts : Cardinality({j \in starts : j < i}) = k - 1
      end(i) == Min({j \in i..Len(s) : j = Len(s) \/ s[j + 1] \in Whitespace})
  IN [k \in 1..Cardinality(starts) |-> SubSeq(s, start(k), end(start(k)))]

\* needle in hay, for Python strings
In(needle, hay) ==
  \E i \in 0..(Len(hay) - Len(needle)) : SubSeq(hay, i + 1, i + Len(needle)) = needle

Alnum == {"d", "o", "n", "e", "m", "s", "t", "i", "g", "u", "D", "S", "0", "1", "9",
          "a", "b", "c", "f", "h", "k", "l", "p", "r"}

Currency == {"$", "€", "£", "¥"}

KeptChar(ch) == ch \in Alnum \cup Currency

_normalize_text(text) == SelectSeq(text, KeptChar)

_text_matches(found_text, target_text, fuzzy_match) ==
  LET found_lower == strip(lower(found_text))
      target_lower == strip(lower(target_text))
      normalized_found == _normalize_text(found_lower)
      normalized_target == _normalize_text(target_lower)
      longest == Max({Len(normalized_target), 1})
      \* len_ratio < 0.5 or len_ratio > 2.0
      ratio_off == \/ 2 * Len(normalized_found) < longest
                   \/ Len(normalized_found) > 2 * longest
      target_words == split(target_lower)
      found_words == split(found_lower)
      matching_words ==
        Cardinality({i \in DOMAIN target_words :
                       \E j \in DOMAIN found_words :
                         \/ In(target_words[i], found_words[j])
                         \/ In(found_words[j], target_words[i])})
  IN IF found_lower = target_lower THEN TRUE
     ELSE IF ~fuzzy_match THEN normalized_found = normalized_target
     ELSE IF ratio_off /\ Len(normalized_target) > 3 THEN FALSE
     ELSE IF normalized_target # <<>> /\ In(normalized_target, normalized_found) THEN TRUE
     ELSE IF normalized_found # <<>> /\ In(normalized_found, normalized_target) THEN TRUE
     ELSE IF target_words = <<>> THEN FALSE
     ELSE 10 * matching_words >= 7 * Len(target_words)

_find_with_easyocr(entries, target_text, fuzzy_match) ==
  KeepAt([i \in DOMAIN entries |-> FoundElement(entries[i].text, entries[i].confidence, i)],
         {i \in DOMAIN entries : _text_matches(entries[i].text, target_text, fuzzy_match)},
         1)

_find_with_tesseract(entries, target_text, fuzzy_match) ==
  KeepAt([i \in DOMAIN entries |->
            FoundElement(strip(entries[i].text), entries[i].confidence, i)],
         {i \in DOMAIN entries :
            /\ entries[i].confidence > 30
            /\ strip(entries[i].text) # <<>>
            /\ _text_matches(strip(entries[i].text), target_text, fuzzy_match)},
         1)

\* list.sort(key=confidence, reverse=True): equal confidences keep their order
RECURSIVE InsertByConfidence(_, _)
InsertByConfidence(e, sorted) ==
  IF sorted = <<>> \/ Head(sorted).confidence <= e.confidence
  THEN <<e>> \o sorted
  ELSE <<Head(sorted)>> \o InsertByConfidence(e, Tail(sorted))

RECURSIVE SortByConfidence(_)
SortByConfidence(s) ==
  IF s = <<>> THEN <<>> ELSE InsertByConfidence(Head(s), SortByConfidence(Tail(s)))

find_elements_by_text(entries, engine, target_text, fuzzy_match, exclude_texts) ==
  LET found == IF engine = "easyocr"
                 THEN _find_with_easyocr(entries, target_text, fuzzy_match)
               ELSE IF engine = "tesseract"
                 THEN _find_with_tesseract(entries, target_text, fuzzy_match)
               ELSE <<>>
      kept == IF exclude_texts # <<>>
              THEN KeepAt(found, {i \in DOMAIN found : found[i].text \notin Range(exclude_texts)}, 1)
              ELSE found
  IN SortByConfidence(kept)

_extract_all_text(entries, engine) ==
  IF engine = "easyocr"
  THEN KeepAt([i \in DOMAIN entries |-> FoundElement(entries[i].text, entries[i].confidence, i)],
              {i \in DOMAIN entries :
                 entries[i].confidence > 30 /\ strip(entries[i].text) # <<>>},
              1)
  ELSE <<>>

Separators == {" ", "-", "_"}

NotSeparator(ch) == ch \notin Separators

\* the letters OCR confuses with digits
char_map == [o |-> "0", i |-> "1", l |-> "1"]

_normalize_for_similarity(text) ==
  LET kept == SelectSeq(SelectSeq(strip(lower(text)), NotSeparator), KeptChar)
  IN [k \in DOMAIN kept |-> IF kept[k] \in DOMAIN char_map THEN char_map[kept[k]] ELSE kept[k]]

\* one row of the edit-distance table, for character c1 of s1
RECURSIVE current_row(_, _, _, _)
current_row(c1, s2, previous_row, row) ==
  LET j == Len(row)
  IN IF j > Len(s2) THEN row
     ELSE LET insertions == previous_row[j + 1] + 1
              deletions == row[j] + 1
              substitutions == previous_row[j] + (IF c1 # s2[j] THEN 1 ELSE 0)
          IN current_row(c1, s2, previous_row,
                         Append(row, Min({insertions, deletions, substitutions})))

RECURSIVE LevenshteinRows(_, _, _, _)
LevenshteinRows(s1, s2, i, previous_row) ==
  \* every row has len(s2) + 1 entries; the last row is the result
  IF i > Len(s1) \/ Len(previous_row) # Len(s2) + 1 THEN previous_row
  ELSE LevenshteinRows(s1, s2, i + 1, current_row(s1[i], s2, previous_row, <<i>>))

RECURSIVE _levenshtein_distance(_, _)
_levenshtein_distance(s1, s2) ==
  IF Len(s1) < Len(s2) THEN _levenshtein_distance(s2, s1)
  ELSE IF Len(s2) = 0 THEN Len(s1)
  ELSE LevenshteinRows(s1, s2, 1, [j \in 1..(Len(s2) + 1) |-> j - 1])[Len(s2) + 1]

\* a float as the fraction num / den
Fraction(num, den) == [num |-> num, den |-> den]

Less(a, b) == a.num * b.den < b.num * a.den

_calculate_similarity(s1, s2) ==
  IF s1 = <<>> \/ s2 = <<>> THEN Fraction(0, 1)
  ELSE IF s1 = s2 THEN Fraction(1, 1)
  ELSE IF In(s1, s2) \/ In(s2, s1) THEN Fraction(9, 10)
  ELSE LET max_len == Max({Len(s1), Len(s2)})
       IN IF max_len = 0 THEN Fraction(1, 1)
          ELSE Fraction(Max({0, max_len - _levenshtein_distance(s1, s2)}), max_len)

NoElement == [text |-> <<>>, confidence |-> 0, coordinates |-> 0, element_type |-> "None"]

\* the loop of _find_most_similar from element k on
RECURSIVE MostSimilarFrom(_, _, _, _, _)
MostSimilarFrom(found, target_normalized, k, best_match, best_score) ==
  IF k > Len(found) THEN [best_match |-> best_match, best_score |-> best_score]
  ELSE LET element == found[k]
           similarity == _calculate_similarity(target_normalized,
                                               _normalize_for_similarity(lower(element.text)))
           \* similarity * (0.7 + 0.3 * confidence)
           adjusted_score == Fraction(similarity.num * (700 + 3 * element.confidence),
                                      similarity.den * 1000)
       IN IF element.confidence < 30
          THEN MostSimilarFrom(found, target_normalized, k + 1, best_match, best_score)
          ELSE IF Less(best_score, adjusted_score)
          THEN MostSimilarFrom(found, target_normalized, k + 1, element, adjusted_score)
          ELSE MostSimilarFrom(found, target_normalized, k + 1, best_match, best_score)

_find_most_similar(found, target_text) ==
  IF found = <<>> \/ target_text = <<>> THEN NoElement
  ELSE LET best == MostSimilarFrom(found, _normalize_for_similarity(lower(target_text)),
                                   1, NoElement, Fraction(0, 1))
       IN IF ~Less(best.best_score, Fraction(1, 2)) THEN best.best_match ELSE NoElement

(* ------------------ resolving a target: MouseController ----------------- *)

\* a description the first two branches of _find_element_by_description
\* do not take: no first result / link, no button, no click
TextBranch(d) ==
  LET description_lower == strip(lower(d))
  IN /\ ~(/\ In(<<"f", "i", "r", "s", "t">>, description_lower)
          /\ \/ In(<<"r", "e", "s", "u", "l", "t">>, description_lower)
             \/ In(<<"l", "i", "n", "k">>, description_lower))
     /\ ~In(<<"b", "u", "t", "t", "o", "n">>, description_lower)
     /\ ~In(<<"c", "l", "i", "c", "k">>, description_lower)

\* the keys of common_elements that a text-branch description can hold
common_elements ==
  {<<"t", "a", "s", "k", "b", "a", "r">>, <<"c", "e", "n", "t", "e", "r">>,
   <<"t", "o", "p", " ", "l", "e", "f", "t">>, <<"t", "o", "p", " ", "r", "i", "g", "h", "t">>,
   <<"b", "o", "t", "t", "o", "m", " ", "l", "e", "f", "t">>,
   <<"b", "o", "t", "t", "o", "m", " ", "r", "i", "g", "h", "t">>}

NoPosition == [via |-> "none", coordinates |-> 0, text |-> <<>>]

Position(via, element) ==
  [via |-> via, coordinates |-> element.coordinates, text |-> element.text]

\* exact matching for short texts and for texts with a symbol
UseFuzzy(d) ==
  ~(Len(d) <= 5 \/ \E sym \in {"$", "€", "£", "¥", "#"} : sym \in Range(d))

\* the similarity search, then the table of common elements
FallbackPosition(d, best_match) ==
  IF best_match # NoElement THEN Position("similarity", best_match)
  ELSE IF \E key \in common_elements : In(key, lower(d))
  THEN [via |-> "common", coordinates |-> 0, text |-> <<>>]
  ELSE NoPosition

\* what is returned once the text search has given the list found; visual
\* says whether find_visual_elements shows an element above the best text
\* match
ResolvedPosition(d, entries, engine, found, via, visual) ==
  IF found # <<>>
  THEN IF visual THEN [via |-> "visual", coordinates |-> 0, text |-> <<>>]
       ELSE Position(via, found[1])
  ELSE FallbackPosition(d, _find_most_similar(_extract_all_text(entries, engine), d))

\* the text search: a second one in fuzzy mode when the exact one found
\* nothing
TextSearch(d, entries, engine, tried, first) ==
  IF first = <<>> /\ ~UseFuzzy(d)
  THEN [elements |-> find_elements_by_text(entries, engine, d, TRUE, tried), via |-> "fuzzy"]
  ELSE [elements |-> first, via |-> IF UseFuzzy(d) THEN "fuzzy" ELSE "exact"]

Resolved(d, entries, engine, tried, search, visual) ==
  [use_fuzzy |-> UseFuzzy(d),
   exclude_list |-> tried,
   elements |-> search.elements,
   position |-> ResolvedPosition(d, entries, engine, search.elements, search.via, visual)]

\* the text branch of _find_element_by_description and what follows it
_find_element_by_description(d, entries, engine, tried, visual) ==
  Resolved(d, entries, engine, tried,
           TextSearch(d, entries, engine, tried,
                      find_elements_by_text(entries, engine, d, UseFuzzy(d), tried)),
           visual)

FinderInit ==
  /\ IdleBut("finder")
  /\ screen \in Screens
  /\ ocr \in OcrEngines
  /\ _tried_targets \in ExclusionLists
  /\ description \in {d \in Descriptions : TextBranch(d)}
  /\ resolution = NoResolution
  /\ failed_targets = {}
  /\ n_clicks = 0

\* one call of _resolve_target with a text target
ResolveTarget ==
  /\ resolution = NoResolution
  /\ \E visual \in BOOLEAN :
       resolution' = [done |-> TRUE] @@
         _find_element_by_description(description, screen, ocr, _tried_targets, visual)
  /\ UNCHANGED <<screen, ocr, _tried_targets, description, failed_targets, n_clicks,
                 serverVars, agentVars, promptVars, parserVars, similarityVars, matchVars, execVars, cliVars, loopVars>>

FinderNext == ResolveTarget

SpecFinder == FinderInit /\ [][FinderNext]_vars

\* the screens a controller is followed on from click to click: nothing
\* readable, or one entry
MouseScreens == {sc \in Screens : Len(sc) <= 1}

\* a MouseController as its constructor leaves it, in front of some screen
MouseInit ==
  /\ IdleBut("finder")
  /\ screen \in MouseScreens
  /\ ocr \in OcrEngines
  /\ _tried_targets = <<>>
  /\ description = <<>>
  /\ resolution = NoResolution
  /\ failed_targets = {}
  /\ n_clicks = 0

\* click(target) with a text target; raises says whether pyautogui.click
\* raised.  failed_targets collects the targets whose click returned False.
Click ==
  /\ n_clicks < MaxClicks
  /\ \E target \in {d \in Descriptions : TextBranch(d)}, visual \in BOOLEAN, raises \in BOOLEAN :
       /\ description' = target
       /\ resolution' = [done |-> TRUE] @@
            _find_element_by_description(target, screen, ocr, _tried_targets, visual)
       /\ failed_targets' = IF resolution'.position # NoPosition /\ ~raises
                            THEN failed_targets ELSE failed_targets \cup {target}
  /\ n_clicks' = n_clicks + 1
  /\ UNCHANGED <<screen, ocr, _tried_targets,
                 serverVars, agentVars, promptVars, parserVars, similarityVars, matchVars, execVars, cliVars, loopVars>>

MouseNext == Click

SpecMouse == MouseInit /\ [][MouseNext]_vars

(* -------------------- the similarity of two strings --------------------- *)

\* longest string handed to _calculate_similarity
MaxChars == 3

\* an alphabet with a letter and the digit OCR takes it for
SimilarityChars == {"a", "o", "0"}

Strings == UNION {[1..n -> SimilarityChars] : n \in 0..MaxChars}

SimilarityInit ==
  /\ IdleBut("similarity")
  /\ str1 \in Strings
  /\ str2 \in Strings
  /\ similarity_result = NoSimilarity

CalculateSimilarity ==
  /\ similarity_result = NoSimilarity
  /\ similarity_result' = [done |-> TRUE] @@ _calculate_similarity(str1, str2)
  /\ UNCHANGED <<str1, str2, serverVars, agentVars, promptVars, parserVars, finderVars, matchVars, execVars, cliVars, loopVars>>

SimilarityNext == CalculateSimilarity

SpecSimilarity == SimilarityInit /\ [][SimilarityNext]_vars

(* ------------------------ matching one text alone ----------------------- *)

\* most words in a text handed to _text_matches
MaxTextWords == 3

\* the words the texts are made of
MatchWords == {Done, Dome, <<"D", "o">>}

RECURSIVE JoinWords(_)
JoinWords(ws) ==
  IF Len(ws) = 1 THEN ws[1] ELSE ws[1] \o <<" ">> \o JoinWords(Tail(ws))

MatchTexts == {JoinWords(ws) : ws \in UNION {[1..n -> MatchWords] : n \in 1..MaxTextWords}}

MatchInit ==
  /\ IdleBut("match")
  /\ entry_text \in MatchTexts
  /\ wanted_text \in MatchTexts
  /\ match_result = NoMatch

CallTextMatches ==
  /\ match_result = NoMatch
  /\ match_result' = [done |-> TRUE,
                      fuzzy |-> _text_matches(entry_text, wanted_text, TRUE),
                      exact |-> _text_matches(entry_text, wanted_text, FALSE)]
  /\ UNCHANGED <<entry_text, wanted_text, serverVars, agentVars, promptVars, parserVars,
                 finderVars, similarityVars, execVars, cliVars, loopVars>>

MatchNext == CallTextMatches

SpecMatch == MatchInit /\ [][MatchNext]_vars

(* ------------------ the handlers and their parameters ------------------ *)

\* the parameter keys a command may carry for its handler
ParamKeys(k, a) ==
  IF k = "mouse" THEN {"x", "y", "target"}
  ELSE IF a = "type" THEN {"text"}
  ELSE IF a = "key_press" THEN {"key"}
  ELSE IF a = "search" THEN {"query"}
  ELSE {"query", "url"}

ParamActions ==
  { Cmd("mouse", "click"), Cmd("keyboard", "type"), Cmd("keyboard", "key_press"),
    Cmd("web", "search"), Cmd("web", "navigate") }

\* a ParsedCommand: kind, action and the keys of its parameters dict
ParamCommands ==
  { [kind |-> c.kind, action |-> c.action, parameters |-> ks] :
      c \in ParamActions, ks \in SUBSET {"x", "y", "target", "text", "key", "query", "url"} }

\* the commands whose parameters are keys their handler or the decoder knows
KnownParamCommands == {c \in ParamCommands : c.parameters \subseteq ParamKeys(c.kind, c.action)}

Outcome(s, m, prims) == [success |-> s, message |-> m, primitives |-> prims]

\* MouseController.click once the target is resolved to position
MouseClick(position, prim) ==
  IF position.via = "none" THEN [returns |-> FALSE, primitives |-> {}]
  ELSE [returns |-> prim # "raises", primitives |-> {"pyautogui.click"}]

\* params.get("target", ""): the text target, "" without the key
TargetText(parameters) == IF "target" \in parameters THEN Done ELSE <<>>

\* the click branch of _execute_mouse_command with the parameters dict
ClickWithParams(parameters, entries, engine, prim, visual, clicked) ==
  IF "x" \in parameters /\ "y" \in parameters
  THEN Outcome(prim # "raises",
               IF prim # "raises" THEN Msg("Clicked at ({x}, {y})", <<>>) ELSE Msg("Click failed", <<>>),
               {"pyautogui.click"})
  ELSE Outcome(clicked.returns,
               IF clicked.returns THEN Msg("Clicked on {target}", <<>>) ELSE Msg("Click failed", <<>>),
               clicked.primitives)

\* KeyboardController.type_text on params.get("text", "")
TypeWithParams(parameters, prim) ==
  Outcome(prim # "raises",
          IF prim # "raises" THEN Msg("Typed: {text}", <<>>) ELSE Msg("Typing failed", <<>>),
          {"pyautogui.write"})

\* KeyboardController.press_key on params.get("key", ""): _normalize_key_name
\* knows no key named ""
KeyPressWithParams(parameters, prim) ==
  IF "key" \notin parameters THEN Outcome(FALSE, Msg("Key press failed", <<>>), {})
  ELSE Outcome(prim # "raises",
               IF prim # "raises" THEN Msg("Pressed key: {key}", <<>>) ELSE Msg("Key press failed", <<>>),
               {"pyautogui.press"})

\* _web_search and _web_navigate on params.get("query", ""): both open the
\* browser on the address they build and return True unless that raised
WebWithParams(action, prim) ==
  IF action = "search"
  THEN Outcome(prim # "raises",
               IF prim # "raises" THEN Msg("Searched for: {query}", <<>>) ELSE Msg("Search failed", <<>>),
               {"webbrowser.open"})
  ELSE Outcome(prim # "raises",
               IF prim # "raises" THEN Msg("Navigated to: {url}", <<>>) ELSE Msg("Navigation failed", <<>>),
               {"webbrowser.open"})

\* execute on a command of these kinds
ExecuteWithParams(c, entries, engine, prim, visual) ==
  IF c.kind = "mouse"
  THEN ClickWithParams(c.parameters, entries, engine, prim, visual,
         MouseClick(_find_element_by_description(TargetText(c.parameters), entries, engine,
                                                 <<>>, visual).position, prim))
  ELSE IF c.action = "type" THEN TypeWithParams(c.parameters, prim)
  ELSE IF c.action = "key_press" THEN KeyPressWithParams(c.parameters, prim)
  ELSE WebWithParams(c.action, prim)

ExecInit ==
  /\ IdleBut("exec")
  /\ exec_call \in [command : KnownParamCommands, screen : MouseScreens,
                    ocr : OcrEngines, prim : Prims]
  /\ exec_result = NoOutcome

\* one call of execute
ExecuteCommand ==
  /\ exec_result = NoOutcome
  /\ \E visual \in BOOLEAN :
       exec_result' = [done |-> TRUE] @@
         ExecuteWithParams(exec_call.command, exec_call.screen, exec_call.ocr,
                           exec_call.prim, visual)
  /\ UNCHANGED <<exec_call, serverVars, agentVars, promptVars, parserVars, finderVars,
                 similarityVars, matchVars, cliVars, loopVars>>

ExecNext == ExecuteCommand

SpecExec == ExecInit /\ [][ExecNext]_vars

(* ----------------------- AxelaApp.process_command ---------------------- *)

\* most steps in one answer of the assistant
MaxCliCmds == 2

\* SecuritySettings.require_confirmation as __post_init__ leaves it
require_confirmation == {"shutdown", "restart", "delete", "format", "registry"}

requires_confirmation(command_action) == command_action \in require_confirmation

\* what process_request gives back: a failure, an exception, or commands
\* with the requires_confirmation flag and what the user answers to it
CliAnswers ==
  {[kind |-> "failed"], [kind |-> "raised"]} \cup
  [kind : {"commands"}, commands : SeqsUpTo(Cmds, MaxCliCmds),
   requires_confirmation : BOOLEAN, confirmed : BOOLEAN]

Event(by, op, c, ok) == [by |-> by, op |-> op, cmd |-> c, ok |-> ok]

Bool(b) == IF b THEN "true" ELSE "false"

AfterAiAlwaysReturns(success) == "returned"

\* process_command after _process_ai_command returned success: return
\* True, or go on to the pattern parser
AfterAi(success) == IF success THEN "returned" ELSE "parse"

\* _process_ai_command is over with the value success
AiReturns(success) ==
  /\ cli_ai_success' = Bool(success)
  /\ cli_pc' = AfterAi(success)
  /\ cli_return' = IF AfterAi(success) = "returned" THEN Bool(success) ELSE cli_return

CliInit ==
  /\ IdleBut("cli")
  /\ cli_pc = "start"
  /\ cli_request \in [text : {"click x"}, ai_mode : BOOLEAN, available : BOOLEAN,
                      security : Securities]
  /\ cli_commands = <<>>
  /\ cli_idx = 0
  /\ cli_events = <<>>
  /\ cli_ai_success = "none"
  /\ cli_return = "none"

\* the head of process_command
ProcessCommand ==
  /\ cli_pc = "start"
  /\ cli_pc' = IF cli_request.ai_mode /\ cli_request.available THEN "ai" ELSE "parse"
  /\ UNCHANGED <<cli_request, cli_commands, cli_idx, cli_events, cli_ai_success, cli_return,
                 serverVars, agentVars, promptVars, parserVars, finderVars,
                 similarityVars, matchVars, execVars, loopVars>>

\* _process_ai_command up to its loop
AiRequest ==
  /\ cli_pc = "ai"
  /\ \E answer \in CliAnswers :
       IF answer.kind # "commands"
       THEN /\ AiReturns(FALSE)
            /\ UNCHANGED <<cli_commands, cli_idx, cli_events>>
       ELSE IF answer.requires_confirmation /\ ~answer.confirmed
       THEN /\ AiReturns(FALSE)
            /\ cli_events' = Append(cli_events, Event("ai", "confirm", Cmd("none", "none"), FALSE))
            /\ UNCHANGED <<cli_commands, cli_idx>>
       ELSE IF answer.commands = <<>>
       THEN /\ AiReturns(TRUE)
            /\ UNCHANGED <<cli_commands, cli_idx, cli_events>>
       ELSE /\ cli_commands' = answer.commands
            /\ cli_idx' = 1
            /\ cli_pc' = "ai_step"
            /\ UNCHANGED <<cli_events, cli_ai_success, cli_return>>
  /\ UNCHANGED <<cli_request, serverVars, agentVars, promptVars, parserVars, finderVars,
                 similarityVars, matchVars, execVars, loopVars>>

\* one turn of the loop of _process_ai_command
AiStep ==
  /\ cli_pc = "ai_step"
  /\ IF ~is_command_allowed(cli_request.security, cli_commands[cli_idx].kind,
                            cli_commands[cli_idx].action)
     THEN /\ cli_events' = Append(cli_events, Event("ai", "gate", cli_commands[cli_idx], FALSE))
          /\ AiReturns(FALSE)
          /\ UNCHANGED cli_idx
     ELSE \E prim \in (IF CallsPrimitive(cli_commands[cli_idx]) THEN Prims ELSE {"none"}) :
            /\ cli_events' = Append(cli_events,
                 Event("ai", "execute", cli_commands[cli_idx],
                       execute(cli_commands[cli_idx], prim).success))
            /\ IF ~execute(cli_commands[cli_idx], prim).success
               THEN AiReturns(FALSE) /\ UNCHANGED cli_idx
               ELSE IF cli_idx = Len(cli_commands)
               THEN AiReturns(TRUE) /\ UNCHANGED cli_idx
               ELSE /\ cli_idx' = cli_idx + 1
                    /\ UNCHANGED <<cli_pc, cli_ai_success, cli_return>>
  /\ UNCHANGED <<cli_request, cli_commands, serverVars, agentVars, promptVars, parserVars,
                 finderVars, similarityVars, matchVars, execVars, loopVars>>

\* the events of the pattern path for the command parse returned
PatternEvents(parsed_command, allowed, confirmed, success) ==
  <<Event("pattern", "parse", parsed_command, TRUE)>>
  \o (IF ~allowed THEN <<Event("pattern", "gate", parsed_command, FALSE)>>
      ELSE IF requires_confirmation(parsed_command.action) /\ ~confirmed
      THEN <<Event("pattern", "confirm", parsed_command, FALSE)>>
      ELSE <<Event("pattern", "execute", parsed_command, success)>>)

PatternReturn(parsed_command, allowed, confirmed, success) ==
  IF ~allowed THEN FALSE
  ELSE IF requires_confirmation(parsed_command.action) /\ ~confirmed THEN FALSE
  ELSE success

\* the rest of process_command: parse, gate, confirmation, execute
PatternPath ==
  /\ cli_pc = "parse"
  /\ \E parsed_command \in Cmds, confirmed \in BOOLEAN :
       \E prim \in (IF CallsPrimitive(parsed_command) THEN Prims ELSE {"none"}) :
         /\ cli_events' = cli_events \o
              PatternEvents(parsed_command,
                            is_command_allowed(cli_request.security, parsed_command.kind,
                                               parsed_command.action),
                            confirmed, execute(parsed_command, prim).success)
         /\ cli_return' =
              Bool(PatternReturn(parsed_command,
                                 is_command_allowed(cli_request.security, parsed_command.kind,
                                                    parsed_command.action),
                                 confirmed, execute(parsed_command, prim).success))
  /\ cli_pc' = "returned"
  /\ UNCHANGED <<cli_request, cli_commands, cli_idx, cli_ai_success,
                 serverVars, agentVars, promptVars, parserVars, finderVars,
                 similarityVars, matchVars, execVars, loopVars>>

CliNext == ProcessCommand \/ AiRequest \/ AiStep \/ PatternPath

SpecCli == CliInit /\ [][CliNext]_vars

(* ------------------- ScriptScheduler and its loop task ----------------- *)

\* the clock stops here
MaxTime == 2
\* most loop tasks start() creates
MaxTasks == 2
\* most runs of the script that are followed
MaxRuns == 2

\* recurring_interval, in ticks of the clock
Interval == 2

\* Script.should_execute_now; next_execution is -1 for None
should_execute_now ==
  recurrence.enabled /\ recurrence.next_execution >= 0 /\ clock >= recurrence.next_execution

\* Script.mark_executed: next_execution = calculate_next_execution()
mark_executed(r) == [r EXCEPT !.next_execution = clock + Interval]

AfterRunAlwaysMarked(success, r) == mark_executed(r)

\* what _check_and_execute_due_scripts does with the result of a run
AfterRun(success, r) == IF success THEN mark_executed(r) ELSE r

\* start() returns at once while is_running
StartIsNoOp == loop_is_running

\* Task.cancel() on a task that is not done
Cancel(status) == IF status \in {"new", "sleeping"} THEN "cancelled" ELSE status

LoopInit ==
  /\ IdleBut("loop")
  /\ loop_is_running = FALSE
  /\ loop_task = 0
  /\ loop_tasks = [t \in 1..MaxTasks |-> "none"]
  /\ stop_waits = {}
  /\ stop_returned = FALSE
  /\ recurrence \in {NoRecurrence, [enabled |-> TRUE, next_execution |-> 0],
                     [enabled |-> TRUE, next_execution |-> 1]}
  /\ clock = 0
  /\ script_runs = <<>>

\* ScriptScheduler.start
Start ==
  /\ stop_returned' = FALSE
  /\ IF StartIsNoOp
     THEN UNCHANGED <<loop_is_running, loop_task, loop_tasks>>
     ELSE \E t \in 1..MaxTasks :
            /\ loop_tasks[t] = "none"
            /\ \A u \in 1..(t - 1) : loop_tasks[u] # "none"
            /\ loop_is_running' = TRUE
            /\ loop_task' = t
            /\ loop_tasks' = [loop_tasks EXCEPT ![t] = "new"]
  /\ UNCHANGED <<stop_waits, recurrence, clock, script_runs,
                 serverVars, agentVars, promptVars, parserVars, finderVars,
                 similarityVars, matchVars, execVars, cliVars>>

\* ScriptScheduler.stop up to await self._task, or all of it when the
\* scheduler is not running
StopCall ==
  /\ IF ~loop_is_running
     THEN /\ stop_returned' = TRUE
          /\ UNCHANGED <<loop_is_running, loop_tasks, stop_waits>>
     ELSE /\ loop_is_running' = FALSE
          /\ loop_tasks' = [loop_tasks EXCEPT ![loop_task] = Cancel(@)]
          /\ stop_waits' = stop_waits \cup {loop_task}
          /\ UNCHANGED stop_returned
  /\ UNCHANGED <<loop_task, recurrence, clock, script_runs,
                 serverVars, agentVars, promptVars, parserVars, finderVars,
                 similarityVars, matchVars, execVars, cliVars>>

\* the CancelledError reaches the task: where it sleeps, or before its
\* first step
TaskCancelled(t) ==
  /\ loop_tasks[t] = "cancelled"
  /\ loop_tasks' = [loop_tasks EXCEPT ![t] = "done"]
  /\ UNCHANGED <<loop_is_running, loop_task, stop_waits, stop_returned, recurrence, clock,
                 script_runs, serverVars, agentVars, promptVars, parserVars, finderVars,
                 similarityVars, matchVars, execVars, cliVars>>

\* await self._task is over and stop() returns
StopReturn(t) ==
  /\ t \in stop_waits
  /\ loop_tasks[t] = "done"
  /\ stop_waits' = stop_waits \ {t}
  /\ stop_returned' = TRUE
  /\ UNCHANGED <<loop_is_running, loop_task, loop_tasks, recurrence, clock, script_runs,
                 serverVars, agentVars, promptVars, parserVars, finderVars,
                 similarityVars, matchVars, execVars, cliVars>>

\* one turn of _scheduler_loop: the while test, the check with the run of
\* the script when it is due, then asyncio.sleep(check_interval)
LoopTurn(t) ==
  /\ loop_tasks[t] \in {"new", "sleeping"}
  /\ IF ~loop_is_running
     THEN /\ loop_tasks' = [loop_tasks EXCEPT ![t] = "done"]
          /\ UNCHANGED <<recurrence, script_runs>>
     ELSE /\ loop_tasks' = [loop_tasks EXCEPT ![t] = "sleeping"]
          /\ IF should_execute_now
             THEN /\ Len(script_runs) < MaxRuns
                  /\ \E success \in BOOLEAN :
                       /\ script_runs' = Append(script_runs,
                            [task |-> t, at |-> clock, success |-> success,
                             after_stop |-> stop_returned])
                       /\ recurrence' = AfterRun(success, recurrence)
             ELSE UNCHANGED <<recurrence, script_runs>>
  /\ UNCHANGED <<loop_is_running, loop_task, stop_waits, stop_returned, clock,
                 serverVars, agentVars, promptVars, parserVars, finderVars,
                 similarityVars, matchVars, execVars, cliVars>>

\* time passes
Tick ==
  /\ clock < MaxTime
  /\ clock' = clock + 1
  /\ UNCHANGED <<loop_is_running, loop_task, loop_tasks, stop_waits, stop_returned,
                 recurrence, script_runs, serverVars, agentVars, promptVars, parserVars,
                 finderVars, similarityVars, matchVars, execVars, cliVars>>

\* ScriptManager.enable_recurring, from its handler
EnableRecurring ==
  /\ recurrence' = [enabled |-> TRUE, next_execution |-> clock + Interval]
  /\ UNCHANGED <<loop_is_running, loop_task, loop_tasks, stop_waits, stop_returned,
                 clock, script_runs, serverVars, agentVars, promptVars, parserVars,
                 finderVars, similarityVars, matchVars, execVars, cliVars>>

\* ScriptManager.disable_recurring, from its handler
DisableRecurring ==
  /\ recurrence' = [enabled |-> FALSE, next_execution |-> -1]
  /\ UNCHANGED <<loop_is_running, loop_task, loop_tasks, stop_waits, stop_returned,
                 clock, script_runs, serverVars, agentVars, promptVars, parserVars,
                 finderVars, similarityVars, matchVars, execVars, cliVars>>

LoopNext ==
  \/ Start
  \/ StopCall
  \/ \E t \in 1..MaxTasks : TaskCancelled(t)
  \/ \E t \in 1..MaxTasks : StopReturn(t)
  \/ \E t \in 1..MaxTasks : LoopTurn(t)
  \/ Tick
  \/ EnableRecurring
  \/ DisableRecurring

SpecLoop == LoopInit /\ [][LoopNext]_vars

Next ==
  \/ \E h \in Handlers :
       \/ ReceiveExecuteManual(h)
       \/ ReceiveExecuteAI(h)
       \/ OracleReply(h)
       \/ ReceiveExecuteSequence(h)
       \/ Gate(h)
       \/ Dispatch(h)
       \/ SettleEnd(h)
       \/ Respond(h)
       \/ ReceiveScriptExecute(h)
       \/ ScriptRespond(h)
       \/ Close(h)
  \/ \E t \in Tasks : ScriptLine(t) \/ ScriptDispatch(t)
  \/ UpdateConfig
  \/ SchedStart
  \/ SchedStop
  \/ SchedCheck
  \/ SchedNext
  \/ SchedScriptDone
  \/ SchedLogged

Spec == Init /\ [][Next]_vars


(* ------------------------------ properties ----------------------------- *)

Failed(call) == ~call.result.success

MessagesOf(cs) == [j \in DOMAIN cs |-> cs[j].result.message]

\* C1: in every sequence runner of the API server the steps are dispatched
\* in list order, a failed step is the last one dispatched, overall success
\* is then false and the collected messages are exactly those of the steps
\* up to and including the failed one.
C1_StopsAtFirstFailure ==
  \A h \in Handlers :
    route[h] \in ApiRoutes =>
      /\ \A j \in DOMAIN calls[h] :
           /\ calls[h][j].idx = j
           /\ calls[h][j].cmd = commands[h][j]
           /\ Failed(calls[h][j]) =>
                /\ j = Len(calls[h])
                /\ ~total_success[h]
                /\ messages[h] = MessagesOf(calls[h])
      /\ (pc[h] = "responded" /\ response[h].kind = "run") =>
           /\ response[h].success = total_success[h]
           /\ response[h].messages = messages[h]

\* [A ok, B fail, C ok] has been answered: two results, C never dispatched
C1_Witness ==
  \E h \in Handlers :
    /\ pc[h] = "responded"
    /\ route[h] \in ApiRoutes
    /\ Len(commands[h]) = 3
    /\ Len(calls[h]) = 2
    /\ ~Failed(calls[h][1])
    /\ Failed(calls[h][2])
    /\ ~response[h].success
    /\ Len(response[h].messages) = 2

Gated(t, call) ==
  \E g \in DOMAIN gates[t] :
    /\ gates[t][g].line = call.line
    /\ gates[t][g].idx = call.idx
    /\ gates[t][g].cmd = call.cmd
    /\ gates[t][g].allowed

\* C2: every call of CommandExecutor.execute, on every path, is preceded by
\* a call of is_command_allowed for that command that returned true.
C2_EveryDispatchGated ==
  \A t \in Tasks : \A j \in DOMAIN calls[t] : Gated(t, calls[t][j])

\* every message the executor can return
ExecutorMessages ==
  { execute(c, prim).message : c \in Cmds, prim \in Prims \cup {"none"} }

\* C3: when the gate rejects step i of a sequence, step i is not dispatched,
\* a message no execution produces is recorded for it, overall success is
\* false, and no later step of the sequence is gated or dispatched.
C3_BlockAborts ==
  \A h \in Handlers : \A g \in DOMAIN gates[h] :
    ~gates[h][g].allowed =>
      /\ g = Len(gates[h])
      /\ \A j \in DOMAIN calls[h] : calls[h][j].idx < gates[h][g].idx
      /\ ~total_success[h]
      /\ messages[h] # <<>>
      /\ messages[h][Len(messages[h])] \notin ExecutorMessages
      /\ messages[h][Len(messages[h])] =
           BlockedMessage(route[h], Len(commands[h]), gates[h][g].idx, gates[h][g].cmd)
      /\ pc[h] = "responded" => ~response[h].success

\* the second of three steps was rejected, after the first was dispatched
C3_Witness ==
  \E h \in Handlers :
    /\ pc[h] = "responded"
    /\ Len(commands[h]) = 3
    /\ Len(gates[h]) = 2
    /\ ~gates[h][2].allowed
    /\ Len(calls[h]) = 1

\* C4: execute returns an ExecutionResult for every command, and one with
\* success = false when the handler or the OS primitive under it raises or
\* reports failure.
C4_FailureIsReported ==
  \A t \in Tasks : \A j \in DOMAIN calls[t] :
    calls[t][j].prim \in {"false", "raises"} => ~calls[t][j].result.success

\* a sequence is in flight: it has dispatched a step and has not ended
InFlight(t) ==
  /\ calls[t] # <<>>
  /\ pc[t] \in {"gate", "exec", "settle", "script_line", "script_exec"}

Dispatches(t) == Len(calls'[t]) > Len(calls[t])

\* C5: while one sequence is in flight no step of any other sequence is
\* dispatched.
C5_OneSequenceInFlight ==
  [][\A t \in Tasks : Dispatches(t) => \A u \in Tasks \ {t} : ~InFlight(u)]_vars

\* a chain waits between two steps while the scheduler task is due to wake
C5_Witness ==
  /\ \E h \in Handlers : pc[h] = "settle" /\ InFlight(h)
  /\ pc[Sched] = "sleep"
  /\ is_running

\* a step of some task other than h: the scheduler, a configuration
\* change, or another request being taken up
OtherTaskStep(h) ==
  \/ SchedStart
  \/ SchedStop
  \/ SchedCheck
  \/ UpdateConfig
  \/ \E g \in Handlers \ {h} :
       \/ ReceiveExecuteManual(g)
       \/ ReceiveExecuteAI(g)
       \/ ReceiveExecuteSequence(g)
       \/ ReceiveScriptExecute(g)

\* C6: while a sequence waits in a settle delay or in the oracle round-trip
\* the other tasks of the event loop can take a step (and the waiting
\* sequence dispatches nothing: it is at neither "gate" nor "exec").
C6_WaitsDoNotBlock ==
  \A h \in Handlers : pc[h] \in {"settle", "oracle"} => ENABLED OtherTaskStep(h)

Returned == agent_pc = "returned"

\* C7: the status of every AgentStepResponse is continue, complete or
\* failed, whatever document the oracle returns.
C7_StatusIsOneOfThree ==
  Returned => step_response.status \in {"continue", "complete", "failed"}

\* the oracle's reply cannot be decoded: no JSON, or a bad command entry
Undecodable(reply) ==
  \/ reply.kind = "text"
  \/ /\ reply.kind = "object"
     /\ \E j \in DOMAIN reply.commands : reply.commands[j] # "valid"

\* C8: whenever the oracle's reply cannot be decoded the returned
\* AgentStepResponse has status failed and success false.
C8_DecodeFailureIsFailed ==
  (Returned /\ client /\ Undecodable(oracle)) =>
    (step_response.status = "failed" /\ ~step_response.success)

\* C9: every AgentStepResponse with status failed carries a non-empty
\* final_response.
C9_FailedHasFinalResponse ==
  (Returned /\ step_response.status = "failed") =>
    step_response.final_response \notin {None, ""}

\* C10: whenever process_agent_step returns status continue the commands
\* list holds exactly one command.
C10_ContinueHasOneCommand ==
  (Returned /\ step_response.status = "continue") =>
    Len(step_response.commands) = 1

\* the text t is written somewhere in the prompt
PromptContains(p, t) ==
  \/ \E k \in DOMAIN p.stuck_warning.with : p.stuck_warning.with[k] = t
  \/ \E i \in DOMAIN p.history_text.of : p.history_text.of[i].already_tried = t

\* the prompt's warning block names t as the target not to click again
PromptForbids(p, t) == p.stuck_warning = StuckWarning(t)

LastEntry == step_history[Len(step_history)]

\* C11: when the last history entry has stuck_detected = true and
\* already_tried = T, the prompt contains T and a warning block that forbids
\* clicking T again, whatever the earlier entries are (stated here for the
\* histories json.dumps can serialise).
C11_StuckWarningNamesLastTarget ==
  ( /\ prompt # NoPrompt
    /\ step_history # <<>>
    /\ \A i \in DOMAIN step_history : step_history[i].serialisable
    /\ LastEntry.stuck_detected
    /\ LastEntry.already_tried \in Targets )
  => ( /\ PromptContains(prompt, LastEntry.already_tried)
       /\ PromptForbids(prompt, LastEntry.already_tried) )

\* the positions of t, from i on, that lie between a matching pair of quotes
RECURSIVE QuotedFrom(_, _)
QuotedFrom(t, i) ==
  IF i > Len(t) THEN {}
  ELSE IF t[i] \in Quotes /\ \E k \in (i + 1)..Len(t) : t[k] = t[i]
    THEN LET close == Min({ k \in (i + 1)..Len(t) : t[k] = t[i] })
         IN ((i + 1)..(close - 1)) \cup QuotedFrom(t, close + 1)
  ELSE QuotedFrom(t, i + 1)

\* the segments between the separators that are at no position of quoted,
\* the separators taken left to right, empty segments dropped
RECURSIVE SplitOutside(_, _, _, _, _, _)
SplitOutside(t, quoted, i, last, blank, parts) ==
  LET n == Len(t)
      cut == IF i - 1 >= last THEN Append(parts, SubSeq(t, last, i - 1)) ELSE parts
      free == blank /\ i \notin quoted
  IN IF i > n THEN cut
     ELSE IF free /\ i + 1 < n /\ t[i] = "and" /\ t[i + 1] = "then"
       THEN SplitOutside(t, quoted, i + 2, i + 2, FALSE, cut)
     ELSE IF free /\ i < n /\ t[i] \in {"then", "and"}
       THEN SplitOutside(t, quoted, i + 1, i + 1, FALSE, cut)
     ELSE IF i \notin quoted /\ t[i] = ","
       THEN SplitOutside(t, quoted, i + 1, i + 1, TRUE, cut)
     ELSE SplitOutside(t, quoted, i + 1, last, TRUE, parts)

\* C12: parse_sequence splits exactly at the commas and connectives that
\* are not enclosed between a matching pair of single or double quotes.
C12_SplitsOutsideQuotesOnly ==
  parse_result.by = "parse_sequence" =>
    parse_result.parts =
      SplitOutside(input_text, QuotedFrom(input_text, 1), 1, 1, FALSE, <<>>)

\* the consecutive commands cs occur in the list l
OccursIn(cs, l) ==
  \E k \in 0..(Len(l) - Len(cs)) : SubSeq(l, k + 1, k + Len(cs)) = cs

\* C13: an arithmetic-intent phrase, as the whole input of parse_sequence
\* or as one part of a chain, yields exactly the pair type <expression>,
\* press enter.
C13_ArithmeticBecomesTypeEnter ==
  parse_result.by = "parse_sequence" =>
    /\ _expand_compound(input_text) # <<>> =>
         parse_result.commands = _expand_compound(input_text)
    /\ \A k \in DOMAIN parse_result.parts :
         _expand_compound(parse_result.parts[k]) # <<>> =>
           OccursIn(_expand_compound(parse_result.parts[k]), parse_result.commands)

\* the categories in the order the table is scanned
CategoryOrder ==
  <<"mouse", "keyboard", "screenshot", "system", "file", "program", "web", "utility">>

Rank(kind) == CHOOSE r \in DOMAIN CategoryOrder : CategoryOrder[r] = kind

\* C14: parse returns the kind and action of the first table entry, in
\* category order and declaration order, whose pattern occurs anywhere in
\* the lower-cased text; a later entry is never preferred.
C14_FirstMatchWins ==
  /\ \A k \in 2..Len(command_patterns) :
       Rank(command_patterns[k - 1].kind) <= Rank(command_patterns[k].kind)
  /\ parse_result.by = "parse" =>
       LET occurring == { k \in DOMAIN command_patterns :
                            Occurs(command_patterns[k], LowerText(input_text)) }
       IN \A k \in occurring :
            (\A j \in occurring : k <= j) =>
              /\ parse_result.commands[1].kind = command_patterns[k].kind
              /\ parse_result.commands[1].action = command_patterns[k].action

\* "double click x" was parsed: the click entry and the later double click
\* entry both occur in it
C14_Witness ==
  /\ parse_result.by = "parse"
  /\ \E j, k \in DOMAIN command_patterns :
       /\ j < k
       /\ command_patterns[j].action = "click"
       /\ command_patterns[k].action = "double_click"
       /\ Occurs(command_patterns[j], LowerText(input_text))
       /\ Occurs(command_patterns[k], LowerText(input_text))
  /\ parse_result.commands[1].action = "click"

NoPatternOccurs(t) == \A k \in DOMAIN command_patterns : ~Occurs(command_patterns[k], t)

\* C15: parse and parse_sequence return a command for every text; a text
\* no pattern occurs in becomes unknown/click with parameters {text} and
\* confidence 0, and executing an unknown command fails without reaching
\* any primitive.
C15_UnknownIsHarmless ==
  parse_result # NoParse =>
    /\ parse_result.commands # <<>>
    /\ (parse_result.by = "parse" /\ NoPatternOccurs(LowerText(input_text))) =>
         /\ parse_result.commands[1].kind = "unknown"
         /\ parse_result.commands[1].parameters = {<<"text", LowerText(input_text)>>}
    /\ \A k \in DOMAIN parse_result.commands :
         LET c == parse_result.commands[k]
         IN c.kind = "unknown" =>
              /\ c.action = "click"
              /\ c.confidence = 0
              /\ \E v \in {c.raw_text} : c.parameters = {<<"text", v>>}
              /\ ~CallsPrimitive(c)
              /\ \A prim \in Prims \cup {"none"} : ~execute(c, prim).success

\* a chain of two segments was parsed and one of them matched nothing
C15_Witness ==
  /\ parse_result.by = "parse_sequence"
  /\ Len(parse_result.commands) = 2
  /\ \E k \in DOMAIN parse_result.commands :
       /\ parse_result.commands[k].kind = "unknown"
       /\ parse_result.commands[k].raw_text # <<>>

(* --------------------------- target resolution -------------------------- *)

\* the entry a resolution settled on, when it settled on an OCR entry
ChoseEntry == resolution.done /\ resolution.position.via \in {"exact", "fuzzy", "similarity"}

\* C16: whatever the exclusion list and the OCR entries, no element whose
\* raw text is in the exclusion list is in the list find_elements_by_text
\* returned, and none is the element whose coordinates the resolution
\* returned, the similarity fallback included.
C16_ExcludedNeverReturned ==
  resolution.done =>
    /\ \A k \in DOMAIN resolution.elements :
         resolution.elements[k].text \notin Range(_tried_targets)
    /\ ChoseEntry => resolution.position.text \notin Range(_tried_targets)

\* the entries of the screen that match the description exactly
ExactMatches == {i \in DOMAIN screen : _text_matches(screen[i].text, description, FALSE)}

\* the entries that match it in fuzzy mode only
FuzzyOnlyMatches ==
  {i \in DOMAIN screen : _text_matches(screen[i].text, description, TRUE)} \ ExactMatches

\* C17: when the screen holds an entry matching the description exactly
\* and another matching it only fuzzily, the exact one comes before the
\* fuzzy one in the returned list and is the best text match, the one the
\* click goes to, whatever the two confidences are.
C17_ExactBeforeFuzzy ==
  (/\ resolution.done
   /\ ocr = "easyocr"
   /\ _tried_targets = <<>>
   /\ ExactMatches # {}
   /\ FuzzyOnlyMatches # {}) =>
    /\ \A a, b \in DOMAIN resolution.elements :
         (/\ resolution.elements[a].coordinates \in ExactMatches
          /\ resolution.elements[b].coordinates \in FuzzyOnlyMatches) => a < b
    /\ resolution.elements # <<>>
    /\ resolution.elements[1].coordinates \in ExactMatches

\* C18: the similarity of a string to itself is 1.0, the empty string
\* included, and every similarity is between 0 and 1.
C18_SimilarityBounds ==
  similarity_result.done =>
    /\ 0 <= similarity_result.num
    /\ similarity_result.num <= similarity_result.den
    /\ str1 = str2 => similarity_result.num = similarity_result.den

\* C20: once a click on a text target has returned False, every later
\* resolution by the same MouseController hands find_elements_by_text an
\* exclusion list that holds that target.
C20_FailedTargetsExcluded ==
  [][\A t \in failed_targets : t \in Range(resolution'.exclude_list)]_vars

(* ------------------------- the reported step count ---------------------- *)

\* the steps of the run of h that were attempted: the gated ones, and the
\* block that could not be built if the run stopped at one
StepsAttempted(h) ==
  LET gated == Len(gates[h])
      reached_next == gated = 0 \/ (/\ gates[h][gated].allowed
                                    /\ Len(calls[h]) = gated
                                    /\ ~Failed(calls[h][gated]))
  IN IF /\ gated < Len(commands[h])
        /\ reached_next
        /\ commands[h][gated + 1] = BogusBlock
     THEN gated + 1 ELSE gated

\* C19: the response of a sequence execution reports the number of steps
\* attempted: a run of n steps that stopped at step i reports i, not n, and
\* its message list has one entry for each attempted step.
C19_ReportsStepsAttempted ==
  \A h \in Handlers :
    (/\ pc[h] = "responded"
     /\ response[h].kind = "run"
     /\ Len(commands[h]) >= 2) =>
      /\ response[h].steps = StepsAttempted(h)
      /\ Len(response[h].messages) = StepsAttempted(h)

\* the part of C19 the code keeps: one message for each attempted step
C19_OneMessagePerStep ==
  \A h \in Handlers :
    (/\ pc[h] = "responded"
     /\ response[h].kind = "run"
     /\ Len(commands[h]) >= 2) =>
      Len(response[h].messages) = StepsAttempted(h)

(* ------------------------ exact mode, confidence floor ------------------ *)

\* what _text_matches compares in exact mode
Normalized(t) == _normalize_text(strip(lower(t)))

\* C21: for a description of at most 5 characters, or one with a symbol,
\* every entry the resolver returns has the normalized text of the
\* description: no entry matching as a substring, by its words or by
\* similarity is in the returned list or is resolved to, also when no
\* exactly matching entry is on the screen.
C21_ExactModeReturnsExactOnly ==
  (resolution.done /\ ~UseFuzzy(description)) =>
    /\ \A k \in DOMAIN resolution.elements :
         Normalized(resolution.elements[k].text) = Normalized(description)
    /\ ChoseEntry => Normalized(resolution.position.text) = Normalized(description)

\* the part of C21 the code keeps: with an exactly matching entry in
\* reach, only exactly matching entries are returned
C21_ExactOnlyWhenExactFound ==
  (/\ resolution.done
   /\ ~UseFuzzy(description)
   /\ find_elements_by_text(screen, ocr, description, FALSE, _tried_targets) # <<>>) =>
    /\ \A k \in DOMAIN resolution.elements :
         Normalized(resolution.elements[k].text) = Normalized(description)
    /\ ChoseEntry => Normalized(resolution.position.text) = Normalized(description)

\* C23: no element with an OCR confidence under 0.3 is returned by the
\* resolver, neither in the list of text matches (EasyOCR or Tesseract)
\* nor as the entry resolved to, the similarity fallback included.
C23_ConfidenceFloor ==
  resolution.done =>
    /\ \A k \in DOMAIN resolution.elements : resolution.elements[k].confidence >= 30
    /\ ChoseEntry => screen[resolution.position.coordinates].confidence >= 30

\* the part of C23 the code keeps: Tesseract matches, full-frame
\* extraction and the similarity fallback are over the floor
C23_FloorOffEasyOcrMatching ==
  resolution.done =>
    /\ ocr = "tesseract" =>
         \A k \in DOMAIN resolution.elements : resolution.elements[k].confidence > 30
    /\ \A k \in DOMAIN _extract_all_text(screen, ocr) :
         _extract_all_text(screen, ocr)[k].confidence > 30
    /\ resolution.position.via = "similarity" =>
         screen[resolution.position.coordinates].confidence >= 30

(* ------------------------------- fuzzy mode ----------------------------- *)

\* (a): one normalized text is a substring of the other
SubstringMatch(e, t) ==
  In(Normalized(t), Normalized(e)) \/ In(Normalized(e), Normalized(t))

\* the length of the normalized entry is between half and twice that of
\* the normalized description
RatioWithin(e, t) ==
  /\ 2 * Len(Normalized(e)) >= Len(Normalized(t))
  /\ Len(Normalized(e)) <= 2 * Len(Normalized(t))

\* the words of the description that hold, or are held by, a word of the entry
WordsMatched(e, t) ==
  {i \in DOMAIN split(lower(t)) :
     \E j \in DOMAIN split(lower(e)) :
       \/ In(split(lower(t))[i], split(lower(e))[j])
       \/ In(split(lower(e))[j], split(lower(t))[i])}

\* (b): length ratio in [0.5, 2.0] and 70% of the description's words matched
WordMatch(e, t) ==
  /\ RatioWithin(e, t)
  /\ 10 * Cardinality(WordsMatched(e, t)) >= 7 * Len(split(lower(t)))

\* C22: in fuzzy mode _text_matches(entry, description) is true exactly
\* when (a) one normalized text is a substring of the other, or (b) the
\* length ratio is in [0.5, 2.0] and at least 70% of the description's
\* words match a word of the entry; (a) holds whatever the length ratio.
C22_FuzzyIsSubstringOrWords ==
  match_result.done =>
    (match_result.fuzzy <=>
       SubstringMatch(entry_text, wanted_text) \/ WordMatch(entry_text, wanted_text))

\* the part of C22 the code keeps: for a description of more than 3
\* normalized characters and a length ratio in [0.5, 2.0] the match is
\* (a) or (b)
C22_FuzzyWithinRatio ==
  (/\ match_result.done
   /\ Len(Normalized(wanted_text)) > 3
   /\ RatioWithin(entry_text, wanted_text)) =>
    (match_result.fuzzy <=>
       SubstringMatch(entry_text, wanted_text) \/ WordMatch(entry_text, wanted_text))

(* --------------------- C24: required parameters ------------------------ *)

\* the parameter the handler of c needs is not in its parameters dict
RequiredAbsent(c) ==
  IF c.kind = "mouse"
  THEN ~("x" \in c.parameters /\ "y" \in c.parameters) /\ "target" \notin c.parameters
  ELSE IF c.action = "type" THEN "text" \notin c.parameters
  ELSE IF c.action = "key_press" THEN "key" \notin c.parameters
  ELSE "query" \notin c.parameters

\* the primitives that act on the machine
InputPrimitives == {"pyautogui.click", "pyautogui.write", "pyautogui.press", "webbrowser.open"}

\* C24: a command whose required parameter is absent is rejected by its
\* handler: execute returns success = false and invokes no OS primitive
C24_MissingParameterRejected ==
  (exec_result.done /\ RequiredAbsent(exec_call.command))
    => /\ ~exec_result.success
       /\ exec_result.primitives \cap InputPrimitives = {}

\* the part of C24 that holds: a click with neither coordinates nor target
\* and a key press without key fail and touch nothing
C24_ClickAndKeyPressRejected ==
  (/\ exec_result.done
   /\ RequiredAbsent(exec_call.command)
   /\ exec_call.command.action \in {"click", "key_press"})
    => /\ ~exec_result.success
       /\ exec_result.primitives = {}

C24_Witness ==
  /\ exec_result.done
  /\ RequiredAbsent(exec_call.command)
  /\ exec_call.command.action = "click"
  /\ exec_call.screen # <<>>
  /\ ~exec_result.success

(* ------------------------ C25: the settle delay ------------------------ *)

\* the runner of h has just run step idx[h] with success and dispatches the
\* step after it: the gate lets it through as the security section stands
NextStepFollows(h) ==
  /\ pc[h] = "exec"
  /\ idx'[h] = idx[h] + 1
  /\ idx'[h] <= Len(commands[h])
  /\ commands[h][idx'[h]] # BogusBlock
  /\ is_command_allowed(security, commands[h][idx'[h]].kind, commands[h][idx'[h]].action)

\* C25: in every sequence runner a settle delay chosen from the kind and
\* action of the step just executed elapses before the next step is
\* dispatched, and it is longer after a program start or a web
\* search/navigation than after a screenshot
C25_SettleBetweenSteps ==
  [][\A h \in Handlers :
       NextStepFollows(h) =>
         /\ pc'[h] = "settle"
         /\ waiting'[h] = [kind |-> "settle", ms |-> SettleDelay(commands[h][idx[h]])]
         /\ SettleDelay(Cmd("program", "start")) > SettleDelay(Cmd("screenshot", "capture"))
         /\ \A a \in {"search", "navigate"} :
              SettleDelay(Cmd("web", a)) > SettleDelay(Cmd("screenshot", "capture"))]_vars

\* the part of C25 that holds: the chained runner of /execute does so
C25_ManualRunnerSettles ==
  [][\A h \in Handlers :
       (NextStepFollows(h) /\ route[h] = "execute_manual") =>
         /\ pc'[h] = "settle"
         /\ waiting'[h] = [kind |-> "settle", ms |-> SettleDelay(commands[h][idx[h]])]
         /\ SettleDelay(Cmd("program", "start")) > SettleDelay(Cmd("screenshot", "capture"))
         /\ \A a \in {"search", "navigate"} :
              SettleDelay(Cmd("web", a)) > SettleDelay(Cmd("screenshot", "capture"))]_vars

(* ------------------ C26: the pattern parser as fallback ---------------- *)

PatternParsed == \E k \in 1..Len(cli_events) : cli_events[k].by = "pattern" /\ cli_events[k].op = "parse"

\* the pattern path came after everything the assistant's path did, and ran
\* to the end: the command parsed is executed unless the gate or the user
\* stopped it
PatternPathRan ==
  \E k \in 1..Len(cli_events) :
    /\ cli_events[k].by = "pattern" /\ cli_events[k].op = "parse"
    /\ \A j \in 1..Len(cli_events) : cli_events[j].by = "ai" => j < k
    /\ Len(cli_events) = k + 1
    /\ cli_events[k + 1].by = "pattern"
    /\ cli_events[k + 1].cmd = cli_events[k].cmd
    /\ cli_events[k + 1].op =
         (IF ~is_command_allowed(cli_request.security, cli_events[k].cmd.kind,
                                 cli_events[k].cmd.action)
          THEN "gate"
          ELSE IF cli_events[k + 1].op = "confirm"
          THEN IF requires_confirmation(cli_events[k].cmd.action) THEN "confirm" ELSE "none"
          ELSE "execute")

\* C26: with AI mode on, whenever the AI path reports failure the request is
\* then parsed by the pattern parser and, the gate and the confirmation
\* permitting, executed, also when AI-generated steps were dispatched
\* already; the pattern parser is skipped only when the AI path succeeded
C26_PatternFallback ==
  cli_pc = "returned" =>
    /\ cli_ai_success = "false" => PatternPathRan
    /\ ~PatternParsed => cli_ai_success = "true"

\* an AI step was dispatched and worked, a later one failed, and the
\* pattern parser's command was executed after them
C26_Witness ==
  /\ cli_pc = "returned"
  /\ cli_ai_success = "false"
  /\ Len(cli_events) = 4
  /\ cli_events[1] = Event("ai", "execute", Cmd("mouse", "click"), TRUE)
  /\ cli_events[2].by = "ai" /\ cli_events[2].op = "execute"
  /\ cli_events[4].by = "pattern" /\ cli_events[4].op = "execute"

(* ------------------- C27: next_execution and failure ------------------- *)

\* this step is a turn of the loop that ran the script
RanScript == Len(script_runs') = Len(script_runs) + 1

\* this step is a check of the scheduler: a task goes through its loop once
\* and sleeps
Checked == \E t \in 1..MaxTasks : LoopTurn(t) /\ loop_tasks'[t] = "sleeping"

\* C27: the scheduler advances next_execution only after a run that reported
\* success; after a failed run it is unchanged, the script is still due, and
\* every check runs the script while it is due
C27_AdvancesOnSuccessOnly ==
  [][/\ RanScript =>
           (IF script_runs'[Len(script_runs')].success
            THEN recurrence'.next_execution > clock
            ELSE recurrence' = recurrence /\ should_execute_now')
     /\ (Checked /\ should_execute_now) => RanScript
     /\ (Checked /\ ~RanScript) => recurrence' = recurrence]_vars

\* a run failed and the next check ran the script again
C27_Witness ==
  /\ Len(script_runs) >= 2
  /\ ~script_runs[1].success
  /\ script_runs[2].at > script_runs[1].at
  /\ recurrence.next_execution = script_runs[2].at + Interval

(* ----------------------- C28: start and stop --------------------------- *)

\* the loop tasks no cancel() has been called on
Uncancelled == {t \in DOMAIN loop_tasks : loop_tasks[t] \in {"new", "sleeping"}}

\* at most one loop task that has not been cancelled
C28_OneLoopTask == Cardinality(Uncancelled) <= 1

\* no run of the script starts between the return of a stop() and the next
\* call of start()
NoRunAfterStop == \A k \in 1..Len(script_runs) : ~script_runs[k].after_stop

\* C28: across any interleaving of start() and stop() at most one loop task
\* that has not been cancelled exists, and once stop() has returned no
\* script run is started until start() is called again
C28_StartStop == C28_OneLoopTask /\ NoRunAfterStop

C28_Witness ==
  /\ loop_tasks[1] = "done"
  /\ loop_tasks[2] = "sleeping"
  /\ stop_returned
  /\ script_runs # <<>>

(* ---------------------- C29: the run of a script ----------------------- *)

EnabledLines(s) == {i \in 1..Len(s) : s[i].enabled}

\* the handler h has the ScriptExecutionResult of its script in hand
ScriptRan(h) == route[h] = "script" /\ pc[h] = "responded"

\* the executor calls of the run go through the enabled commands in order,
\* leave none out and touch no disabled one
RunsEveryEnabledInOrder(h) ==
  /\ {calls[h][k].line : k \in 1..Len(calls[h])} = EnabledLines(script[h])
  /\ \A j, k \in 1..Len(calls[h]) : j < k => calls[h][j].line <= calls[h][k].line

\* C29: a script run executes every enabled command in order, also after a
\* failed one, skips the disabled ones, reports success exactly when no
\* executed command failed, and counts the result records and the failed
\* ones among them
C29_ScriptRunsToTheEnd ==
  \A h \in Handlers :
    ScriptRan(h) =>
      /\ RunsEveryEnabledInOrder(h)
      /\ Len(response[h].results) = Cardinality(EnabledLines(script[h]))
      /\ response[h].success = (\A k \in 1..Len(response[h].results) : response[h].results[k])
      /\ response[h].executed_commands = Len(response[h].results)
      /\ response[h].failed_commands =
           Cardinality({k \in 1..Len(response[h].results) : ~response[h].results[k]})

\* the first command failed and the second was executed all the same
C29_Witness ==
  \E h \in Handlers :
    /\ ScriptRan(h)
    /\ Len(response[h].results) = 2
    /\ ~response[h].results[1]
    /\ response[h].results[2]
    /\ response[h].failed_commands = 1
    /\ ~response[h].success

(* ------------------- C30: entries that are never selected -------------- *)

\* the entries for double_click, right_click and save, and the utility
\* entry 'sleep <n>', the last of the table
ShadowedEntries ==
  {k \in DOMAIN command_patterns :
     command_patterns[k].action \in {"double_click", "right_click", "save"}}
  \cup {Len(command_patterns)}

\* the entries said to come first: mouse click, screenshot capture, system
\* sleep
ShadowingEntries ==
  {j \in DOMAIN command_patterns :
     \/ command_patterns[j].kind = "mouse" /\ command_patterns[j].action = "click"
     \/ command_patterns[j].kind = "screenshot" /\ command_patterns[j].action = "capture"
     \/ command_patterns[j].kind = "system" /\ command_patterns[j].action = "sleep"}

====
